---- MODULE Spec2Model ----
(***************************************************************************)
(* A model of the wsh command shell (src/src/main.c): tokenizer, alias     *)
(* resolver, builtin dispatcher, command path resolver and the batch-mode  *)
(* line loop with its pipeline executor.                                   *)
(*                                                                         *)
(* Strings are sequences of one-character strings, so that tokenizing,     *)
(* PATH scanning and number parsing are computed character by character.   *)
(* NULL and the content of an uninitialised array slot are one-element     *)
(* sequences holding a long string, which no C string of the model equals. *)
(***************************************************************************)
EXTENDS Naturals, Integers, Sequences, FiniteSets, TLC

NULL == <<"NULL">>
Junk == <<"JUNK">>

Max(a, b) == IF a >= b THEN a ELSE b

(***************************************************************************)
(* C library helpers used by the shell.                                    *)
(***************************************************************************)

\* The least element of a nonempty set of numbers.
MinOf(I) == CHOOSE i \in I : \A j \in I : i <= j

FirstIn(I, none) == IF I = {} THEN none ELSE MinOf(I)

\* strchr(p, c): the first index >= from holding c, 0 when there is none.
strchr(s, c, from) == FirstIn({i \in from..Len(s) : s[i] = c}, 0)

\* while (*p && *p == ' ') p++;
SkipSpaces(s, p) == FirstIn({i \in p..Len(s) : s[i] # " "}, Len(s) + 1)

\* arr[i] for a 0-based index; a slot never written holds Junk.
At(arr, i) == IF i >= 0 /\ i + 1 <= Len(arr) THEN arr[i + 1] ELSE Junk

\* arr[i] = v for a 0-based index.
Store(arr, i, v) ==
  [k \in 1..Max(Len(arr), i + 1) |-> IF k = i + 1 THEN v ELSE At(arr, k - 1)]

\* memmove(arr + d, from + s, n * sizeof(char *)): n slots, copied as if
\* through a temporary buffer.
memmove(arr, d, from, s, n) ==
  [k \in 1..Max(Len(arr), d + n) |->
     IF k > d /\ k <= d + n THEN At(from, s + (k - d) - 1) ELSE At(arr, k - 1)]

(***************************************************************************)
(* The string-keyed string map (hash_map.h): insert, lookup, delete.       *)
(***************************************************************************)
hm_create == [k \in {} |-> <<>>]

hm_get(hm, k) == IF k \in DOMAIN hm THEN hm[k] ELSE NULL

hm_put(hm, k, v) == [x \in (DOMAIN hm) \cup {k} |-> IF x = k THEN v ELSE hm[x]]

hm_delete(hm, k) == [x \in (DOMAIN hm) \ {k} |-> hm[x]]

(***************************************************************************)
(* Tokenizer: parseline_no_subst.  The result is the argument array        *)
(* (argv[count] = NULL written), the count, and whether the missing-quote  *)
(* warning was issued (sh_warn).                                           *)
(***************************************************************************)
ParseResult(acc) == [argv |-> Append(acc, NULL), argc |-> Len(acc), warned |-> FALSE]

\* sh_warn(MISSING_CLOSING_QUOTE); *argc = 0; argv[0] = NULL;
ParseError == [argv |-> <<NULL>>, argc |-> 0, warned |-> TRUE]

RECURSIVE ParseLoop(_, _, _)
RECURSIVE ParseQuoted(_, _, _, _)
RECURSIVE ParsePlain(_, _, _, _)

\* A tokenizer that, at a quote without its closing quote, returns the
\* tokens it has so far.
ParseQuoted_partial(buf, p, acc, q) ==
  IF q = 0 THEN ParseResult(acc)
  ELSE ParseLoop(buf, SkipSpaces(buf, q + 1), Append(acc, SubSeq(buf, p + 1, q - 1)))

\* The token opened by the quote at p: q is strchr(p + 1, '\'').
ParseQuoted(buf, p, acc, q) ==
  IF q = 0 THEN ParseError
  ELSE ParseLoop(buf, SkipSpaces(buf, q + 1), Append(acc, SubSeq(buf, p + 1, q - 1)))

\* The token that starts at p: q is strchr(p, ' ').
ParsePlain(buf, p, acc, q) ==
  IF q = 0 THEN ParseResult(acc)
  ELSE ParseLoop(buf, SkipSpaces(buf, q + 1), Append(acc, SubSeq(buf, p, q - 1)))

\* while (*p)
ParseLoop(buf, p, acc) ==
  IF p > Len(buf) THEN ParseResult(acc)
  ELSE IF buf[p] = "'" THEN ParseQuoted(buf, p, acc, strchr(buf, "'", p + 1))
  ELSE ParsePlain(buf, p, acc, strchr(buf, " ", p))

\* A tokenizer that leaves the newline where it is.
TrailingSpace_keep(cmdline) == Append(cmdline, " ")

\* Replace trailing newline with space, or append one.
TrailingSpace(cmdline) ==
  IF Len(cmdline) > 0 /\ cmdline[Len(cmdline)] = "\n"
  THEN [cmdline EXCEPT ![Len(cmdline)] = " "]
  ELSE Append(cmdline, " ")

ParseBuffer(buf) == ParseLoop(buf, SkipSpaces(buf, 1), <<>>)

parseline_no_subst(cmdline) ==
  IF cmdline = NULL
  THEN [argv |-> <<NULL>>, argc |-> 0, warned |-> FALSE]
  ELSE ParseBuffer(TrailingSpace(cmdline))

\* The tokens of a parse result: argv[0 .. argc-1].
Args(r) == SubSeq(r.argv, 1, r.argc)

(***************************************************************************)
(* Alias resolver: substitute_alias, as a loop over a record of its local  *)
(* variables.  argc is the caller's *argc, which the loop body does not    *)
(* update: it is only adjusted after the loop and in the empty-alias       *)
(* branch.  n_iter counts the executions of the loop body.                 *)
(***************************************************************************)
SubstEntry(alias_hm, argv, argc) ==
  IF argc = 0
  THEN [pc |-> "done", argv |-> argv, argc |-> argc, new_argv |-> <<>>,
        new_argc |-> 1, seen_elements |-> hm_create, command |-> NULL,
        keep_going |-> 1, warned |-> FALSE, n_iter |-> 0]
  ELSE [pc |-> "loop", argv |-> argv, argc |-> argc, new_argv |-> <<>>,
        new_argc |-> 1, seen_elements |-> hm_create,
        command |-> hm_get(alias_hm, At(argv, 0)),
        keep_going |-> 1, warned |-> FALSE, n_iter |-> 0]

\* The loop condition: command != NULL && keep_going.
SubstContinues(st) == st.command # NULL /\ st.keep_going = 1

\* A resolver without the visited set.
SeenBefore_never(st) == FALSE

\* if (hm_get(seen_elements, argv[0]) != NULL) return 0;
SeenBefore(st) == hm_get(st.seen_elements, At(st.argv, 0)) # NULL

\* A resolver without the self-reference check.
KeepGoingAfter_unchecked(st, p) == st.keep_going

\* if (strcmp(new_argv[0], argv[0]) == 0) keep_going = 0;
KeepGoingAfter(st, p) == IF At(p.argv, 0) = At(st.argv, 0) THEN 0 ELSE st.keep_going

\* The locals after parseline_no_subst(command, new_argv, &new_argc).
Parsed(st, p) ==
  [st EXCEPT !.new_argv = p.argv, !.new_argc = p.argc,
             !.warned = st.warned \/ p.warned, !.n_iter = st.n_iter + 1]

\* An empty alias that always empties the command, whatever follows it.
DropFirst_whole(st) ==
  [st EXCEPT !.pc = "done", !.argc = 0,
             !.argv = Store(Store(st.argv, 0, <<>>), 1, NULL)]

\* The alias stands for nothing: drop it (or the whole one-word command).
DropFirst(st) ==
  IF st.argc = 1
  THEN [st EXCEPT !.pc = "done", !.argc = 0,
                  !.argv = Store(Store(st.argv, 0, <<>>), 1, NULL)]
  ELSE [st EXCEPT !.pc = "done", !.argc = st.argc - 1,
                  !.argv = Store(memmove(st.argv, 0, st.argv, 1, st.argc - 1),
                                 st.argc - 1, NULL)]

\* memmove(argv + new_argc - 1, argv, *argc * sizeof(char *));
\* memmove(argv, new_argv, new_argc * sizeof(char *));
Splice(st, p) ==
  memmove(memmove(st.argv, p.argc - 1, st.argv, 0, st.argc), 0, p.argv, 0, p.argc)

\* A splice that enters the new first token in the visited set, not the
\* name it has just expanded.
Spliced_marks_new(alias_hm, st, p, argv) ==
  [st EXCEPT !.keep_going = KeepGoingAfter(st, p),
             !.seen_elements = hm_put(st.seen_elements, At(argv, 0), <<>>),
             !.argv = argv,
             !.command = hm_get(alias_hm, At(argv, 0))]

Spliced(alias_hm, st, p, argv) ==
  [st EXCEPT !.keep_going = KeepGoingAfter(st, p),
             !.seen_elements = hm_put(st.seen_elements, At(st.argv, 0), <<>>),
             !.argv = argv,
             !.command = hm_get(alias_hm, At(argv, 0))]

SubstBodyParsed(alias_hm, st, p) ==
  IF p.argc = 0 THEN DropFirst(Parsed(st, p))
  ELSE IF SeenBefore(st) THEN [Parsed(st, p) EXCEPT !.pc = "done"]
  ELSE Spliced(alias_hm, Parsed(st, p), p, Splice(st, p))

\* One execution of the loop body.
SubstBody(alias_hm, st) ==
  SubstBodyParsed(alias_hm, st, parseline_no_subst(st.command))

\* After the loop: *argc += new_argc - 1; argv[*argc] = NULL.
SubstExit(st) ==
  [st EXCEPT !.pc = "done", !.argc = st.argc + st.new_argc - 1,
             !.argv = Store(st.argv, st.argc + st.new_argc - 1, NULL)]

SubstStep(alias_hm, st) ==
  IF SubstContinues(st) THEN SubstBody(alias_hm, st) ELSE SubstExit(st)

RECURSIVE SubstRun(_, _)
SubstRun(alias_hm, st) ==
  IF st.pc = "done" THEN st ELSE SubstRun(alias_hm, SubstStep(alias_hm, st))

\* The whole call: the final record of locals; argv and argc are the
\* caller's vector afterwards.
substitute_alias(alias_hm, argv, argc) ==
  SubstRun(alias_hm, SubstEntry(alias_hm, argv, argc))

(***************************************************************************)
(* The file system and the programs outside the shell.  Paths are          *)
(* resolved the way the kernel does: relative to the working directory,    *)
(* with empty, "." and ".." components folded away.                        *)
(***************************************************************************)
RootDir == <<"/">>
BinDir  == <<"/", "b", "i", "n">>
TDir    == <<"/", "t">>

\* The directories that exist, and the executable regular files.
Dirs  == {RootDir, BinDir, TDir}
Execs == {BinDir \o <<"/", "p">>, TDir \o <<"/", "q">>}

\* The exit statuses an external program may end with; a program may also
\* be ended by a signal (exited = FALSE).
ProgStatuses == {0, 3}
WaitStatuses ==
  {[exited |-> TRUE, code |-> c] : c \in ProgStatuses}
    \cup {[exited |-> FALSE, code |-> 0]}

\* The components of a path between its '/' separators.
RECURSIVE PathParts(_)
RECURSIVE PathPartsAt(_, _)
PathPartsAt(p, q) ==
  IF q = 0 THEN <<p>>
  ELSE <<SubSeq(p, 1, q - 1)>> \o PathParts(SubSeq(p, q + 1, Len(p)))

PathParts(p) == IF p = <<>> THEN <<>> ELSE PathPartsAt(p, strchr(p, "/", 1))

RECURSIVE FoldParts(_, _)
FoldParts(parts, acc) ==
  IF parts = <<>> THEN acc
  ELSE IF Head(parts) = <<>> \/ Head(parts) = <<".">>
  THEN FoldParts(Tail(parts), acc)
  ELSE IF Head(parts) = <<".", ".">>
  THEN FoldParts(Tail(parts),
                 IF acc = <<>> THEN acc ELSE SubSeq(acc, 1, Len(acc) - 1))
  ELSE FoldParts(Tail(parts), Append(acc, Head(parts)))

RECURSIVE JoinParts(_)
JoinParts(parts) ==
  IF parts = <<>> THEN <<>> ELSE <<"/">> \o Head(parts) \o JoinParts(Tail(parts))

FullPath(cwd, p) == IF p # <<>> /\ p[1] = "/" THEN p ELSE cwd \o <<"/">> \o p

OrRoot(j) == IF j = <<>> THEN RootDir ELSE j

\* The absolute path a path names in a process whose working directory is cwd.
AbsPath(cwd, p) == OrRoot(JoinParts(FoldParts(PathParts(FullPath(cwd, p)), <<>>)))

\* access(p, X_OK) == 0: executable files and searchable directories.
access_X_OK(cwd, p) == p # <<>> /\ AbsPath(cwd, p) \in (Execs \cup Dirs)

\* chdir(p) == 0.
chdir_ok(cwd, p) == p # <<>> /\ AbsPath(cwd, p) \in Dirs

\* execv(p, argv) replaces the process image: regular executables only.
execv_ok(cwd, p) == p # <<>> /\ AbsPath(cwd, p) \in Execs

\* The tokens strtok(s, ":") and the strtok(NULL, ":") calls after it yield.
RECURSIVE strtok_all(_)
RECURSIVE strtok_at(_, _)
strtok_at(s, q) ==
  IF q = 0 THEN <<s>>
  ELSE IF q = 1 THEN strtok_all(Tail(s))
  ELSE <<SubSeq(s, 1, q - 1)>> \o strtok_all(SubSeq(s, q + 1, Len(s)))

strtok_all(s) == IF s = <<>> THEN <<>> ELSE strtok_at(s, strchr(s, ":", 1))

CutAt(s, q) == IF q = 0 THEN s ELSE SubSeq(s, 1, q - 1)

CutAfterToken(s, b) == IF b = 0 THEN s ELSE CutAt(s, strchr(s, ":", b))

\* What the first strtok(s, ":") leaves in the buffer it was given, read
\* as a C string: the delimiter after the first token becomes '\0'.
strtok_buffer(s) == CutAfterToken(s, FirstIn({i \in 1..Len(s) : s[i] # ":"}, 0))

\* isspace(c)
isspace(c) == c \in {" ", "\t", "\n", "\r", "\f"}

DigitChars == <<"0", "1", "2", "3", "4", "5", "6", "7", "8", "9">>
IsDigit(c) == \E d \in 1..10 : DigitChars[d] = c
DigitVal(c) == (CHOOSE d \in 1..10 : DigitChars[d] = c) - 1

RECURSIVE DigitsValue(_, _, _)
DigitsValue(s, from, to) ==
  IF to < from THEN 0 ELSE DigitsValue(s, from, to - 1) * 10 + DigitVal(s[to])

\* b: the first non-space; d0: the first digit position; e: the first
\* position after the digits.
StrtolEnd(s, b, d0, e) ==
  IF e = d0 THEN [val |-> 0, end |-> 1]
  ELSE [val |-> IF s[b] = "-" THEN 0 - DigitsValue(s, d0, e - 1)
                ELSE DigitsValue(s, d0, e - 1),
        end |-> e]

StrtolDigits(s, b, d0) ==
  StrtolEnd(s, b, d0, FirstIn({i \in d0..Len(s) : ~IsDigit(s[i])}, Len(s) + 1))

StrtolFrom(s, b) ==
  StrtolDigits(s, b, IF b <= Len(s) /\ s[b] \in {"-", "+"} THEN b + 1 ELSE b)

\* strtol(s, &endptr, 10): val is the number, end the index endptr points
\* at (Len(s) + 1 is the terminating '\0').
strtol(s) == StrtolFrom(s, FirstIn({i \in 1..Len(s) : ~isspace(s[i])}, Len(s) + 1))

(***************************************************************************)
(* The history list (dynamic_array.c).  data is the sequence of stored     *)
(* lines; freed records that da_free has released the array.               *)
(***************************************************************************)
da_create == [data |-> <<>>, freed |-> FALSE]

da_put(da, val) == [da EXCEPT !.data = Append(da.data, val)]

\* da_get: an index outside 0 .. size-1 (a negative int arrives as a huge
\* size_t) frees the whole array and yields NULL.
da_get(da, ind) ==
  IF ind < 0 \/ ind >= Len(da.data)
  THEN [val |-> NULL, da |-> [da EXCEPT !.freed = TRUE]]
  ELSE [val |-> da.data[ind + 1], da |-> da]

(***************************************************************************)
(* A shell process: its globals (alias_hm, history_da, rc), the part of    *)
(* its environment and kernel state the shell uses (PATH, HOME, working    *)
(* directory), and warned: something was written to stderr since the       *)
(* current line was read.  out is what history has printed since then.     *)
(* heap is what the allocator has made of released storage by the time the *)
(* current line reads it: "intact" (the old bytes are still there) or      *)
(* "reused"; crashed records that the process was killed by a signal.      *)
(***************************************************************************)
HeapViews == {"intact", "reused"}

sh_warn(s) == [s EXCEPT !.rc = 1, !.warned = TRUE]

\* The process is killed (SIGSEGV or abort) while it uses released storage.
Crash(s) == [s EXCEPT !.crashed = TRUE]

\* history_da has been released by da_free and the storage is no longer
\* what it was: any use of it goes wrong.
UseFreed(s) == s.history_da.freed /\ s.heap = "reused"

\* What printf("%s") shows of a stored line: da_put keeps the caller's
\* pointer and the caller frees the line right after the append, so the
\* bytes read are the line only while the storage is intact.
StoredLine(s, e) == IF s.heap = "intact" THEN e ELSE Junk

perror(s) == [s EXCEPT !.warned = TRUE]

(***************************************************************************)
(* Command path resolver and the builtins.  Each takes the process state   *)
(* s and yields its return value with the state it leaves.                 *)
(***************************************************************************)
W_exit    == <<"e", "x", "i", "t">>
W_alias   == <<"a", "l", "i", "a", "s">>
W_unalias == <<"u", "n", "a", "l", "i", "a", "s">>
W_which   == <<"w", "h", "i", "c", "h">>
W_path    == <<"p", "a", "t", "h">>
W_cd      == <<"c", "d">>
W_history == <<"h", "i", "s", "t", "o", "r", "y">>

builtins == {W_exit, W_alias, W_unalias, W_which, W_path, W_cd, W_history}

\* The first PATH directory in which name is executable, 0 when none is.
PathHit(s, toks, name) ==
  FirstIn({i \in 1..Len(toks) : access_X_OK(s.cwd, toks[i] \o <<"/">> \o name)}, 0)

\* sh_warn(msg, ...): the message named msg goes to standard error.
Complain(s, msg) == [sh_warn(s) EXCEPT !.err = Append(@, msg)]

PathFound(s, command, toks, hit) ==
  IF hit = 0
  THEN [path |-> NULL, sh |-> Complain(s, "CMD_NOT_FOUND")]
  ELSE [path |-> toks[hit] \o <<"/">> \o command, sh |-> s]

SearchPath(s, command, toks) == PathFound(s, command, toks, PathHit(s, toks, command))

\* A resolver that tries the working directory before PATH.
get_command_path_cwd_first(s, command) ==
  IF command # <<>> /\ command[1] \in {".", "/"}
  THEN IF access_X_OK(s.cwd, command)
       THEN [path |-> command, sh |-> s]
       ELSE [path |-> NULL, sh |-> Complain(s, "CMD_NOT_FOUND")]
  ELSE IF access_X_OK(s.cwd, <<".", "/">> \o command)
  THEN [path |-> <<".", "/">> \o command, sh |-> s]
  ELSE IF s.PATH = NULL \/ s.PATH = <<>>
  THEN [path |-> NULL, sh |-> Complain(s, "EMPTY_PATH")]
  ELSE SearchPath(s, command, strtok_all(s.PATH))

get_command_path(s, command) ==
  IF command # <<>> /\ command[1] \in {".", "/"}
  THEN IF access_X_OK(s.cwd, command)
       THEN [path |-> command, sh |-> s]
       ELSE [path |-> NULL, sh |-> Complain(s, "CMD_NOT_FOUND")]
  ELSE IF s.PATH = NULL \/ s.PATH = <<>>
  THEN [path |-> NULL, sh |-> Complain(s, "EMPTY_PATH")]
  ELSE SearchPath(s, command, strtok_all(s.PATH))

\* An exit that tolerates one argument.
exit_shell_one_more(s, argc) ==
  IF argc > 2 THEN [res |-> 1, sh |-> sh_warn(s)] ELSE [res |-> 0, sh |-> s]

exit_shell(s, argc) ==
  IF argc > 1 THEN [res |-> 1, sh |-> sh_warn(s)] ELSE [res |-> 0, sh |-> s]

\* Some argv[i] is "=" at a position other than 2.
EqualsMisplaced(argv, argc) ==
  \E i \in 0..(argc - 1) : At(argv, i) = <<"=">> /\ i # 2

\* An alias builtin that takes any name.
create_alias_any_name(s, argv, argc) ==
  IF argc > 4 THEN [res |-> 1, sh |-> s]
  ELSE IF argc = 1 THEN [res |-> 0, sh |-> s]
  ELSE IF EqualsMisplaced(argv, argc) THEN [res |-> 1, sh |-> s]
  ELSE IF ~(argc > 2 /\ At(argv, 2) = <<"=">>) THEN [res |-> 1, sh |-> s]
  ELSE [res |-> 0,
        sh  |-> [s EXCEPT !.alias_hm =
                   hm_put(s.alias_hm, At(argv, 1),
                          IF argc = 3 THEN <<>> ELSE At(argv, 3))]]

create_alias(s, argv, argc) ==
  IF argc > 4 THEN [res |-> 1, sh |-> s]
  ELSE IF argc = 1 THEN [res |-> 0, sh |-> s]
  ELSE IF EqualsMisplaced(argv, argc) THEN [res |-> 1, sh |-> s]
  ELSE IF ~(argc > 2 /\ At(argv, 2) = <<"=">>) THEN [res |-> 1, sh |-> s]
  ELSE IF Len(At(argv, 1)) = 0 THEN [res |-> 1, sh |-> s]
  ELSE IF \E k \in 1..Len(At(argv, 1)) : isspace(At(argv, 1)[k])
  THEN [res |-> 1, sh |-> s]
  ELSE [res |-> 0,
        sh  |-> [s EXCEPT !.alias_hm =
                   hm_put(s.alias_hm, At(argv, 1),
                          IF argc = 3 THEN <<>> ELSE At(argv, 3))]]

\* An unalias that deletes its first argument whatever follows it.
unalias_first_of_many(s, argv, argc) ==
  IF argc >= 2
  THEN [res |-> 0, sh |-> [s EXCEPT !.alias_hm = hm_delete(s.alias_hm, At(argv, 1))]]
  ELSE [res |-> 1, sh |-> s]

unalias(s, argv, argc) ==
  IF argc = 2
  THEN [res |-> 0, sh |-> [s EXCEPT !.alias_hm = hm_delete(s.alias_hm, At(argv, 1))]]
  ELSE [res |-> 1, sh |-> s]

\* printf(fmt, name, detail): the line which prints, as the format's name
\* followed by its two arguments.
WhichPrints(s, fmt, name, detail) ==
  [s EXCEPT !.out = Append(s.out, <<fmt>> \o name \o <<"|">> \o detail)]

\* The outcome of the PATH scan of which; hit is the index of the first
\* token under which name is executable, 0 when there is none.
WhichFound(s, name, toks, hit) ==
  IF hit # 0
  THEN [res |-> 0,
        sh  |-> WhichPrints(s, "WHICH_EXTERNAL", name, toks[hit] \o <<"/">> \o name)]
  ELSE [res |-> 1, sh |-> WhichPrints(s, "WHICH_NOT_FOUND", name, <<>>)]

\* The PATH scan of which: strtok runs on the environment's own string.
WhichSearch(s, name, toks) ==
  WhichFound([s EXCEPT !.PATH = strtok_buffer(s.PATH)], name, toks,
             PathHit(s, toks, name))

\* A which that looks at the builtin names before the alias table.
WhichName_builtin_first(s, name) ==
  IF name \in builtins
  THEN [res |-> 0, sh |-> WhichPrints(s, "WHICH_BUILTIN", name, <<>>)]
  ELSE IF hm_get(s.alias_hm, name) # NULL
  THEN [res |-> 0, sh |-> WhichPrints(s, "WHICH_ALIAS", name, hm_get(s.alias_hm, name))]
  ELSE IF name # <<>> /\ name[1] \in {".", "/"}
  THEN IF access_X_OK(s.cwd, name)
       THEN [res |-> 0, sh |-> WhichPrints(s, "WHICH_EXTERNAL", name, name)]
       ELSE [res |-> 1, sh |-> WhichPrints(s, "WHICH_NOT_FOUND", name, <<>>)]
  ELSE IF s.PATH = NULL \/ s.PATH = <<>>
  THEN [res |-> 1, sh |-> sh_warn(s)]
  ELSE WhichSearch(s, name, strtok_all(s.PATH))

WhichName(s, name) ==
  IF hm_get(s.alias_hm, name) # NULL
  THEN [res |-> 0, sh |-> WhichPrints(s, "WHICH_ALIAS", name, hm_get(s.alias_hm, name))]
  ELSE IF name \in builtins
  THEN [res |-> 0, sh |-> WhichPrints(s, "WHICH_BUILTIN", name, <<>>)]
  ELSE IF name # <<>> /\ name[1] \in {".", "/"}
  THEN IF access_X_OK(s.cwd, name)
       THEN [res |-> 0, sh |-> WhichPrints(s, "WHICH_EXTERNAL", name, name)]
       ELSE [res |-> 1, sh |-> WhichPrints(s, "WHICH_NOT_FOUND", name, <<>>)]
  ELSE IF s.PATH = NULL \/ s.PATH = <<>>
  THEN [res |-> 1, sh |-> sh_warn(s)]
  ELSE WhichSearch(s, name, strtok_all(s.PATH))

which_command(s, argv, argc) ==
  IF argc # 2 THEN [res |-> 1, sh |-> sh_warn(s)] ELSE WhichName(s, At(argv, 1))

path_set_and_get(s, argv, argc) ==
  IF argc = 1
  THEN IF s.PATH = NULL THEN [res |-> 1, sh |-> sh_warn(s)]
       ELSE [res |-> 0, sh |-> [s EXCEPT !.out = Append(@, s.PATH)]]
  ELSE IF argc = 2
  THEN [res |-> 0, sh |-> [s EXCEPT !.PATH = At(argv, 1)]]
  ELSE [res |-> 1, sh |-> sh_warn(s)]

\* A cd that does not look at what chdir returned.
change_directory_unchecked(s, argv, argc) ==
  IF argc = 2
  THEN [res |-> 0, sh |-> [s EXCEPT !.cwd = AbsPath(s.cwd, At(argv, 1))]]
  ELSE IF argc = 1
  THEN IF s.HOME = NULL THEN [res |-> 1, sh |-> sh_warn(s)]
       ELSE [res |-> 0, sh |-> [s EXCEPT !.cwd = AbsPath(s.cwd, s.HOME)]]
  ELSE [res |-> 1, sh |-> sh_warn(s)]

change_directory(s, argv, argc) ==
  IF argc = 2
  THEN IF chdir_ok(s.cwd, At(argv, 1))
       THEN [res |-> 0, sh |-> [s EXCEPT !.cwd = AbsPath(s.cwd, At(argv, 1))]]
       ELSE [res |-> 1, sh |-> perror(s)]
  ELSE IF argc = 1
  THEN IF s.HOME = NULL THEN [res |-> 1, sh |-> sh_warn(s)]
       ELSE IF chdir_ok(s.cwd, s.HOME)
       THEN [res |-> 0, sh |-> [s EXCEPT !.cwd = AbsPath(s.cwd, s.HOME)]]
       ELSE [res |-> 1, sh |-> perror(s)]
  ELSE [res |-> 1, sh |-> sh_warn(s)]

\* g is da_get(history_da, i - 1).
HistoryGot(s, g) ==
  IF g.val # NULL
  THEN [res |-> 0, sh |-> [s EXCEPT !.history_da = g.da,
                                    !.out = Append(s.out, StoredLine(s, g.val))]]
  ELSE [res |-> 1, sh |-> sh_warn([s EXCEPT !.history_da = g.da])]

\* n is strtol(argv[1], &endptr, 10).
HistoryNumber(s, arg, n) ==
  IF n.end <= Len(arg) THEN [res |-> 1, sh |-> sh_warn(s)]
  ELSE HistoryGot(s, da_get(s.history_da, n.val - 1))

\* da_print(history_da): every stored line.
HistoryAll(s) ==
  [res |-> 0,
   sh  |-> [s EXCEPT !.out = s.out \o [k \in 1..Len(s.history_da.data) |->
                                        StoredLine(s, s.history_da.data[k])]]]

show_history(s, argv, argc) ==
  IF argc = 1
  THEN IF UseFreed(s) THEN [res |-> 1, sh |-> Crash(s)] ELSE HistoryAll(s)
  ELSE IF argc = 2
  THEN IF UseFreed(s) /\ strtol(At(argv, 1)).end > Len(At(argv, 1))
       THEN [res |-> 1, sh |-> Crash(s)]
       ELSE HistoryNumber(s, At(argv, 1), strtol(At(argv, 1)))
  ELSE [res |-> 1, sh |-> sh_warn(s)]

\* res = exit_shell(argc); if (res == 0) return 2;
ExitOutcome(r) == IF r.res = 0 THEN [res |-> 2, sh |-> r.sh] ELSE r

\* if (res == 1) sh_warn(INVALID_..._USE);
WarnIfFailed(r) == IF r.res = 1 THEN [res |-> 1, sh |-> sh_warn(r.sh)] ELSE r

\* 0 success, 1 error, 2 the shell must exit, -1 not a builtin.
execute_builtin(s, argv, argc) ==
  IF argc = 0 THEN [res |-> 0, sh |-> s]
  ELSE IF At(argv, 0) = W_exit THEN ExitOutcome(exit_shell(s, argc))
  ELSE IF At(argv, 0) = W_alias THEN WarnIfFailed(create_alias(s, argv, argc))
  ELSE IF At(argv, 0) = W_unalias THEN WarnIfFailed(unalias(s, argv, argc))
  ELSE IF At(argv, 0) = W_which THEN which_command(s, argv, argc)
  ELSE IF At(argv, 0) = W_path THEN path_set_and_get(s, argv, argc)
  ELSE IF At(argv, 0) = W_cd THEN change_directory(s, argv, argc)
  ELSE IF At(argv, 0) = W_history THEN show_history(s, argv, argc)
  ELSE [res |-> -1, sh |-> s]

\* 0 if cmd is a builtin, 1 if not.
is_builtin_command(cmd) ==
  IF cmd = NULL THEN 0 ELSE IF cmd \in builtins THEN 0 ELSE 1

(***************************************************************************)
(* Inputs of the alias-resolution specification.                           *)
(***************************************************************************)
NumNames == 3
MaxExtra == 2

Letters == <<"a", "b", "c", "d", "e", "f">>
Digits  == <<"1", "2", "3", "4", "5">>

AliasNames == {<<Letters[i]>> : i \in 1..NumNames}

\* Replacement strings: a name, a name with one more word, or nothing.
AliasValues ==
  {<<>>} \cup AliasNames \cup {n \o <<" ", "x">> : n \in AliasNames}

AliasTables ==
  UNION {[D -> AliasValues] : D \in SUBSET AliasNames}

\* Input vectors: the first name followed by k plain arguments.
InputVectors ==
  {<<<<Letters[1]>>>> \o [j \in 1..k |-> <<Digits[j]>>] : k \in 0..MaxExtra}

VARIABLES
  tbl,       \* the Alias Table of the call under study
  input,     \* what the function under study was called with
  sa,        \* substitute_alias's local variables
  cur,       \* the vector as the splice rule of the specification builds it
  ret,       \* what the function under study returned, once it has
  sh,        \* the session process: globals, PATH, HOME, working directory
  bm,        \* batch_main's local variables
  pc,        \* where batch_main stands: read, fork, close, wait, wait1, done
  kids,      \* the child processes forked for the current line
  sh0,       \* the session process as it was when the current line was read
  nlines,    \* the number of lines read from the script
  exit_code  \* the value main returns, -1 while the shell runs

avars == <<tbl, input, sa, cur, ret>>
svars == <<sh, bm, pc, kids, sh0, nlines, exit_code>>
vars == <<tbl, input, sa, cur, ret, sh, bm, pc, kids, sh0, nlines, exit_code>>

\* main: alias_hm = hm_create(); history_da = da_create(10);
\* setenv("PATH", "/bin", 1).  HOME and the working directory come from
\* the host.
ShellStart(home) ==
  [alias_hm |-> hm_create, history_da |-> da_create, rc |-> 0,
   PATH |-> BinDir, HOME |-> home, cwd |-> RootDir, warned |-> FALSE,
   out |-> <<>>, err |-> <<>>, heap |-> "intact", crashed |-> FALSE,
   fds |-> {}]

\* batch_main's locals before the first line.
FrameStart ==
  [line |-> <<>>, commands |-> <<>>, argv |-> <<>>, argc |-> 0, res |-> -1,
   i |-> 0, final_status |-> 0, num_pipes |-> 0, is_valid_pipeline |-> 1]

\* No call has returned yet; the value v has been returned.
NotCalled == [done |-> FALSE, val |-> <<>>]
Returned(v) == [done |-> TRUE, val |-> v]

SessionIdle ==
  /\ sh = ShellStart(NULL)
  /\ sh0 = ShellStart(NULL)
  /\ bm = FrameStart
  /\ pc = "read"
  /\ kids = <<>>
  /\ nlines = 0
  /\ exit_code = -1

InitSubst ==
  /\ tbl \in AliasTables
  /\ input \in InputVectors
  /\ sa = SubstEntry(tbl, Append(input, NULL), Len(input))
  /\ cur = input
  /\ ret = NotCalled
  /\ SessionIdle

\* The vector the splice rule makes of cur when the alias at its head
\* stands for toks.
SpliceRule(st, toks, v) ==
  IF toks = <<>> THEN Tail(v)
  ELSE IF SeenBefore(st) THEN v
  ELSE toks \o Tail(v)

\* One pass through the loop body.
SubstLoop ==
  /\ sa.pc = "loop"
  /\ SubstContinues(sa)
  /\ sa' = SubstBody(tbl, sa)
  /\ cur' = SpliceRule(sa, Args(parseline_no_subst(sa.command)), cur)
  /\ UNCHANGED <<tbl, input, ret>>
  /\ UNCHANGED svars

\* Leaving the loop.
SubstFinish ==
  /\ sa.pc = "loop"
  /\ ~SubstContinues(sa)
  /\ sa' = SubstExit(sa)
  /\ UNCHANGED <<tbl, input, cur, ret>>
  /\ UNCHANGED svars

NextSubst == SubstLoop \/ SubstFinish

SpecSubst == InitSubst /\ [][NextSubst]_vars

Result == SubSeq(sa.argv, 1, sa.argc)

(***************************************************************************)
(* The tokenizer on its own: every short line over a letter, the quote and *)
(* the space, with or without the newline fgets leaves at its end.         *)
(***************************************************************************)
MaxText == 5

TextChars == {"a", "'", " "}
TextBodies == UNION {[1..n -> TextChars] : n \in 0..MaxText}
Texts == TextBodies \cup {b \o <<"\n">> : b \in TextBodies}

InitParse ==
  /\ input \in Texts
  /\ ret = NotCalled
  /\ tbl = hm_create
  /\ sa = SubstEntry(hm_create, <<NULL>>, 0)
  /\ cur = <<>>
  /\ SessionIdle

\* parseline_no_subst(input, argv, &argc)
Tokenize ==
  /\ ~ret.done
  /\ ret' = Returned(parseline_no_subst(input))
  /\ UNCHANGED <<tbl, input, sa, cur>>
  /\ UNCHANGED svars

NextParse == Tokenize

SpecParse == InitParse /\ [][NextParse]_vars

(***************************************************************************)
(* Batch mode: batch_main reads the script line by line.                   *)
(***************************************************************************)
MaxLines == 2

RECURSIVE Glue(_, _)
Glue(parts, sep) ==
  IF Len(parts) = 0 THEN <<>>
  ELSE IF Len(parts) = 1 THEN parts[1]
  ELSE parts[1] \o sep \o Glue(Tail(parts), sep)

\* A command from its words, a script line from its pipeline segments.
Words(ws) == Glue(ws, <<" ">>)
ScriptLine(segs) == Glue(segs, <<" ", "|", " ">>) \o <<"\n">>

P == <<"p">>
N == <<"n">>
E == <<"e">>
NDir == <<"/", "n">>

\* The lines a script is made of.
ScriptLines ==
  { ScriptLine(<<P>>),
    ScriptLine(<<Words(<<W_alias, E, <<"=">>>>)>>),
    ScriptLine(<<Words(<<W_alias, E, <<"=">>, P>>)>>),
    ScriptLine(<<E>>),
    ScriptLine(<<Words(<<E, E>>)>>),
    ScriptLine(<<Words(<<W_cd, TDir>>)>>),
    ScriptLine(<<Words(<<W_cd, NDir>>)>>),
    ScriptLine(<<W_exit>>),
    ScriptLine(<<P, E>>),
    ScriptLine(<<P, N, P>>),
    ScriptLine(<<P, P>>),
    ScriptLine(<<P, Words(<<W_cd, NDir>>)>>),
    ScriptLine(<<W_exit, P>>),
    ScriptLine(<<Words(<<P, <<"'", "e", "|", "x", "'">>>>)>>),
    ScriptLine(<<Words(<<W_cd, TDir>>), Words(<<W_alias, <<"a">>, <<"=">>, P>>),
                 Words(<<W_path, TDir>>)>>),
    ScriptLine(<<Words(<<W_unalias, E>>), Words(<<W_which, P>>),
                 Words(<<W_history, <<"0">>>>)>>) }

\* A splitter that does not split inside single quotes.
RECURSIVE SplitQuoted(_, _, _, _)
SplitQuoted(s, i, b, q) ==
  IF i > Len(s) THEN <<SubSeq(s, b, Len(s))>>
  ELSE IF s[i] = "'" THEN SplitQuoted(s, i + 1, b, ~q)
  ELSE IF s[i] = "|" /\ ~q
  THEN <<SubSeq(s, b, i - 1)>> \o SplitQuoted(s, i + 1, i + 1, FALSE)
  ELSE SplitQuoted(s, i + 1, b, q)

strsep_all_quoted(s) == SplitQuoted(s, 1, 1, FALSE)

\* while ((subcommand = strsep(&line_copy, "|")) != NULL): the pieces
\* between the '|' characters of the raw line.
RECURSIVE strsep_all(_)
RECURSIVE strsep_at(_, _)
strsep_at(s, q) ==
  IF q = 0 THEN <<s>>
  ELSE <<SubSeq(s, 1, q - 1)>> \o strsep_all(SubSeq(s, q + 1, Len(s)))

strsep_all(s) == strsep_at(s, strchr(s, "|", 1))

\* p is the tokenizer's result, r the locals substitute_alias ends with.
Resolved(s, p, r) ==
  [argv |-> r.argv, argc |-> r.argc,
   sh |-> IF p.warned \/ r.warned THEN sh_warn(s) ELSE s]

ResolveParsed(s, p) == Resolved(s, p, substitute_alias(s.alias_hm, p.argv, p.argc))

\* parseline_no_subst(segment, argv, &argc); substitute_alias(argv, &argc);
Resolve(s, segment) == ResolveParsed(s, parseline_no_subst(segment))

\* (command_path = get_command_path(argv[0])) == NULL
PathValid(g) == [ok |-> g.path # NULL, sh |-> g.sh]

\* A validation pass that does not look the command up.
ValidateResolved_unchecked(r) ==
  IF r.argc = 0 THEN [ok |-> FALSE, sh |-> sh_warn(r.sh)]
  ELSE [ok |-> TRUE, sh |-> r.sh]

\* A validation pass that finds out whether the command is a builtin by
\* running it in the session process.
ValidateRan(r, b) ==
  IF b.res = -1 THEN PathValid(get_command_path(b.sh, At(r.argv, 0)))
  ELSE [ok |-> TRUE, sh |-> b.sh]

ValidateResolved_runs(r) ==
  IF r.argc = 0 THEN [ok |-> FALSE, sh |-> sh_warn(r.sh)]
  ELSE ValidateRan(r, execute_builtin(r.sh, r.argv, r.argc))

\* The checks of one pass of the validation loop on the resolved segment.
ValidateResolved(r) ==
  IF r.argc = 0 THEN [ok |-> FALSE, sh |-> sh_warn(r.sh)]
  ELSE IF is_builtin_command(At(r.argv, 0)) = 1
  THEN PathValid(get_command_path(r.sh, At(r.argv, 0)))
  ELSE [ok |-> TRUE, sh |-> r.sh]

\* One pass of the validation loop: is the segment something to run?
ValidateSegment(s, segment) == ValidateResolved(Resolve(s, segment))

\* is_valid_pipeline stays 0 once a pass has cleared it.
StillValid(ok, rest) == [ok |-> ok /\ rest.ok, sh |-> rest.sh]

\* The validation loop from segment k on.
RECURSIVE ValidateFrom(_, _, _)
RECURSIVE ValidateRest(_, _, _)
ValidateRest(commands, k, v) == StillValid(v.ok, ValidateFrom(v.sh, commands, k + 1))

ValidateFrom(s, commands, k) ==
  IF k > Len(commands) THEN [ok |-> TRUE, sh |-> s]
  ELSE ValidateRest(commands, k, ValidateSegment(s, commands[k]))

\* da_put(history_da, line_dup_for_history); free(line_dup_for_history);
Remember(s, l) ==
  IF UseFreed(s) THEN Crash(s)
  ELSE [s EXCEPT !.history_da = da_put(s.history_da, l)]

\* Where batch_main stands once the line is in the history.
AfterLine(s) == IF s.crashed THEN "crashed" ELSE "read"

\* sh_free() on the way out: da_free(history_da).
AfterExit(s) == IF UseFreed(s) THEN "crashed" ELSE "done"

\* The terminal (or whatever the shell was started on), and the two ends
\* of pipes[i].
Tty == <<-1, "tty">>
ReadEnd(i) == <<i, "r">>
WriteEnd(i) == <<i, "w">>

\* pipe(pipes[i]) for i = 0 .. num_pipes - 1: the descriptors created.
PipeEnds(num_pipes) ==
  {ReadEnd(i) : i \in 0..(num_pipes - 1)} \cup {WriteEnd(i) : i \in 0..(num_pipes - 1)}

\* A child that starts without the session's environment.
NewKid_no_env(s) ==
  [st |-> "forked", mem |-> [s EXCEPT !.PATH = NULL], res |-> -2,
   status |-> [exited |-> FALSE, code |-> 0],
   stdin |-> Tty, stdout |-> Tty]

\* fork(): a child with a private copy of the session process, its
\* descriptor table included; standard input and output are the shell's.
NewKid(s) ==
  [st |-> "forked", mem |-> s, res |-> -2,
   status |-> [exited |-> FALSE, code |-> 0],
   stdin |-> Tty, stdout |-> Tty]

\* dup2(end, STDIN_FILENO): fails with EBADF when end is not open.
dup2_stdin(k, end) == IF end \in k.mem.fds THEN [k EXCEPT !.stdin = end] ELSE k

\* dup2(end, STDOUT_FILENO)
dup2_stdout(k, end) == IF end \in k.mem.fds THEN [k EXCEPT !.stdout = end] ELSE k

\* A child that leaves every pipe end open.
close_pipes_none(k, num_pipes) == k

\* for (j = 0; j < num_pipes; j++) { close(pipes[j][0]); close(pipes[j][1]); }
close_pipes(k, num_pipes) == [k EXCEPT !.mem.fds = @ \ PipeEnds(num_pipes)]

\* if (i > 0) dup2(pipes[i - 1][0], STDIN_FILENO);
RedirectIn(k, i) == IF i > 0 THEN dup2_stdin(k, ReadEnd(i - 1)) ELSE k

\* if (i < num_commands - 1) dup2(pipes[i][1], STDOUT_FILENO);
RedirectOut(k, i, num_commands) ==
  IF i < num_commands - 1 THEN dup2_stdout(k, WriteEnd(i)) ELSE k

\* A child that closes the pipe ends before it redirects.
Wired_close_first(k, i, num_commands, num_pipes) ==
  RedirectOut(RedirectIn(close_pipes(k, num_pipes), i), i, num_commands)

\* The child of segment i after its two dup2 calls and its close loop.
Wired(k, i, num_commands, num_pipes) ==
  close_pipes(RedirectOut(RedirectIn(k, i), i, num_commands), num_pipes)

ExitedWith(c) == [exited |-> TRUE, code |-> c]
Signalled == [exited |-> FALSE, code |-> 0]

\* clean_exit(c) in a process whose state is s: sh_free(), then exit(c).
clean_exit(s, c) == IF UseFreed(s) THEN Signalled ELSE ExitedWith(c)

EXIT_SUCCESS == 0
EXIT_FAILURE == 1

\* A child that runs a program whether or not a path was found.
KidExecs_unchecked(k, g) == [k EXCEPT !.st = "running", !.mem = g.sh, !.res = -1]

\* execv(full_path, argv), or clean_exit(EXIT_FAILURE) when there is no
\* path or the exec fails.
KidExecs(k, g) ==
  IF g.path # NULL /\ execv_ok(g.sh.cwd, g.path)
  THEN [k EXCEPT !.st = "running", !.mem = g.sh, !.res = -1]
  ELSE [k EXCEPT !.st = "zombie", !.mem = g.sh, !.res = -1,
                 !.status = clean_exit(g.sh, EXIT_FAILURE)]

\* The exit status of a pipeline child that ran a builtin with outcome res.
BuiltinExitStatus(res) == EXIT_SUCCESS

\* b is execute_builtin's outcome in the child.
KidRanBuiltin(k, r, b) ==
  IF b.sh.crashed
  THEN [k EXCEPT !.st = "zombie", !.mem = b.sh, !.res = b.res,
                 !.status = Signalled]
  ELSE IF b.res \in {0, 1, 2}
  THEN [k EXCEPT !.st = "zombie", !.mem = b.sh, !.res = b.res,
                 !.status = clean_exit(b.sh, BuiltinExitStatus(b.res))]
  ELSE KidExecs(k, get_command_path(b.sh, At(r.argv, 0)))

KidResolved(k, r) ==
  IF r.argc = 0
  THEN [k EXCEPT !.st = "zombie", !.mem = sh_warn(r.sh),
                 !.status = clean_exit(r.sh, EXIT_FAILURE)]
  ELSE KidRanBuiltin(k, r, execute_builtin(r.sh, r.argv, r.argc))

\* What the child of a pipeline segment does after wiring its pipes:
\* resolve its own segment, run the builtin or exec the program.
KidRunsSegment(k, segment) == KidResolved(k, Resolve(k.mem, segment))

\* The child of a single external command: exec argv as the parent
\* resolved it.
KidRunsCommand(k, argv) == KidExecs(k, get_command_path(k.mem, At(argv, 0)))

\* if (WIFEXITED(status)) final_status = WEXITSTATUS(status);
\* A wait that drops the child's status.
StatusAfterWait_dropped(final_status, status) == final_status

StatusAfterWait(final_status, status) ==
  IF status.exited THEN status.code ELSE final_status

\* A wait loop that keeps the status of the first child.
LastStatus_first(final_status, i, num_commands, status) ==
  IF i = 0 THEN StatusAfterWait(final_status, status) ELSE final_status

\* if (i == num_commands - 1 && WIFEXITED(status))
\*   final_status = WEXITSTATUS(status);
LastStatus(final_status, i, num_commands, status) ==
  IF i = num_commands - 1 THEN StatusAfterWait(final_status, status)
  ELSE final_status

\* batch_main's locals once line l is split into its segments.
Frame(l) ==
  [bm EXCEPT !.line = l, !.commands = strsep_all(l), !.argv = <<>>,
             !.argc = 0, !.res = -1, !.i = 0, !.num_pipes = 0,
             !.is_valid_pipeline = 1]

\* The session process as a new line finds it; m is the state of the
\* released storage that the line's reads will meet.
AtLineStart(m) ==
  [sh EXCEPT !.warned = FALSE, !.out = <<>>, !.err = <<>>, !.heap = m]

\* A dispatch that forks a child for every command, builtins included.
SingleDispatched_forked(l, r, b) ==
  /\ sh' = r.sh
  /\ bm' = [Frame(l) EXCEPT !.argv = r.argv, !.argc = r.argc]
  /\ kids' = <<NewKid(r.sh)>>
  /\ pc' = "wait1"
  /\ UNCHANGED exit_code

\* b is execute_builtin's outcome on the resolved single command r.
SingleDispatched(l, r, b) ==
  IF b.sh.crashed
  THEN /\ sh' = b.sh
       /\ bm' = [Frame(l) EXCEPT !.argv = r.argv, !.argc = r.argc]
       /\ kids' = <<>>
       /\ pc' = "crashed"
       /\ UNCHANGED exit_code
  ELSE IF b.res = 2
  THEN /\ sh' = IF UseFreed(b.sh) THEN Crash(b.sh) ELSE b.sh
       /\ bm' = [Frame(l) EXCEPT !.argv = r.argv, !.argc = r.argc, !.res = 2]
       /\ kids' = <<>>
       /\ pc' = AfterExit(b.sh)
       /\ exit_code' = IF UseFreed(b.sh) THEN exit_code ELSE bm.final_status
  ELSE IF b.res \in {0, 1}
  THEN /\ sh' = Remember(b.sh, l)
       /\ bm' = [Frame(l) EXCEPT !.argv = r.argv, !.argc = r.argc,
                                 !.res = b.res, !.final_status = b.res]
       /\ kids' = <<>>
       /\ pc' = AfterLine(Remember(b.sh, l))
       /\ UNCHANGED exit_code
  ELSE /\ sh' = b.sh
       /\ bm' = [Frame(l) EXCEPT !.argv = r.argv, !.argc = r.argc]
       /\ kids' = <<NewKid(b.sh)>>
       /\ pc' = "wait1"
       /\ UNCHANGED exit_code

SingleResolved(l, r) ==
  IF r.argc = 0
  THEN /\ sh' = Remember(r.sh, l)
       /\ bm' = [Frame(l) EXCEPT !.argv = r.argv, !.argc = r.argc]
       /\ kids' = <<>>
       /\ pc' = AfterLine(Remember(r.sh, l))
       /\ UNCHANGED exit_code
  ELSE SingleDispatched(l, r, execute_builtin(r.sh, r.argv, r.argc))

\* A line without '|': tokenize, resolve aliases, run the builtin in this
\* process or fork a child for the external command.
ReadSingle(l) ==
  /\ pc = "read"
  /\ nlines < MaxLines
  /\ Len(strsep_all(l)) = 1
  /\ nlines' = nlines + 1
  /\ \E m \in HeapViews :
       /\ sh0' = AtLineStart(m)
       /\ SingleResolved(l, Resolve(AtLineStart(m), strsep_all(l)[1]))
  /\ UNCHANGED avars

\* The forked child of a single external command resolves and execs it.
KidExecSingle ==
  /\ pc \in {"wait1", "iwait1"}
  /\ kids[1].st = "forked"
  /\ kids' = <<KidRunsCommand(kids[1], bm.argv)>>
  /\ UNCHANGED <<sh, bm, pc, sh0, nlines, exit_code>>
  /\ UNCHANGED avars

\* waitpid(pid, &status, 0) for the single command, then the history append.
WaitSingle ==
  /\ pc = "wait1"
  /\ kids[1].st = "zombie"
  /\ kids' = <<[kids[1] EXCEPT !.st = "reaped"]>>
  /\ bm' = [bm EXCEPT !.final_status = StatusAfterWait(bm.final_status, kids[1].status)]
  /\ sh' = Remember(sh, bm.line)
  /\ pc' = AfterLine(Remember(sh, bm.line))
  /\ UNCHANGED <<sh0, nlines, exit_code>>
  /\ UNCHANGED avars

\* v is the outcome of the validation loop over the segments of l.
PipelineValidated(l, v) ==
  IF v.ok
  THEN /\ sh' = [v.sh EXCEPT !.fds = PipeEnds(Len(strsep_all(l)) - 1)]
       /\ bm' = [Frame(l) EXCEPT !.num_pipes = Len(strsep_all(l)) - 1]
       /\ pc' = "fork"
  ELSE /\ sh' = Remember(v.sh, l)
       /\ bm' = [Frame(l) EXCEPT !.is_valid_pipeline = 0]
       /\ pc' = AfterLine(Remember(v.sh, l))

\* A line with '|': the validation loop over all segments, then either
\* the abort (history append only) or the creation of the pipes.
ReadPipeline(l) ==
  /\ pc = "read"
  /\ nlines < MaxLines
  /\ Len(strsep_all(l)) > 1
  /\ nlines' = nlines + 1
  /\ kids' = <<>>
  /\ \E m \in HeapViews :
       /\ sh0' = AtLineStart(m)
       /\ PipelineValidated(l, ValidateFrom(AtLineStart(m), strsep_all(l), 1))
  /\ UNCHANGED exit_code
  /\ UNCHANGED avars

\* pids[i] = fork() in the parent.
Fork ==
  /\ pc = "fork"
  /\ kids' = Append(kids, NewKid(sh))
  /\ bm' = [bm EXCEPT !.i = IF bm.i + 1 = Len(bm.commands) THEN 0 ELSE bm.i + 1]
  /\ pc' = IF bm.i + 1 = Len(bm.commands) THEN "close" ELSE "fork"
  /\ UNCHANGED <<sh, sh0, nlines, exit_code>>
  /\ UNCHANGED avars

\* The parent closes both ends of every pipe.
CloseAll ==
  /\ pc = "close"
  /\ pc' = "wait"
  /\ bm' = [bm EXCEPT !.i = 0]
  /\ sh' = [sh EXCEPT !.fds = @ \ PipeEnds(bm.num_pipes)]
  /\ UNCHANGED <<kids, sh0, nlines, exit_code>>
  /\ UNCHANGED avars

\* A pipeline child: fclose, dup2 of its pipe ends, close of all pipe ends.
KidSetup(k) ==
  /\ pc \in {"fork", "close", "wait", "ifork", "iclose", "prompt"}
  /\ kids[k].st = "forked"
  /\ kids' = [kids EXCEPT ![k] = [Wired(kids[k], k - 1, Len(bm.commands),
                                         bm.num_pipes) EXCEPT !.st = "ready"]]
  /\ UNCHANGED <<sh, bm, pc, sh0, nlines, exit_code>>
  /\ UNCHANGED avars

\* A pipeline child resolves its segment and runs it.
KidRun(k) ==
  /\ pc \in {"fork", "close", "wait", "ifork", "iclose", "prompt"}
  /\ kids[k].st = "ready"
  /\ kids' = [kids EXCEPT ![k] = KidRunsSegment(kids[k], bm.commands[k])]
  /\ UNCHANGED <<sh, bm, pc, sh0, nlines, exit_code>>
  /\ UNCHANGED avars

\* An external program ends, with an exit status or by a signal.
ProgramEnds(k, status) ==
  /\ kids[k].st = "running"
  /\ kids' = [kids EXCEPT ![k].st = "zombie", ![k].status = status]
  /\ UNCHANGED <<sh, bm, pc, sh0, nlines, exit_code>>
  /\ UNCHANGED avars

\* waitpid(pids[i], &status, 0); after the last one, the history append.
Wait ==
  /\ pc = "wait"
  /\ kids[bm.i + 1].st = "zombie"
  /\ kids' = [kids EXCEPT ![bm.i + 1].st = "reaped"]
  /\ bm' = [bm EXCEPT !.i = bm.i + 1,
                      !.final_status = LastStatus(bm.final_status, bm.i,
                                                  Len(bm.commands),
                                                  kids[bm.i + 1].status)]
  /\ IF bm.i = Len(bm.commands) - 1
     THEN /\ sh' = Remember(sh, bm.line)
          /\ pc' = AfterLine(Remember(sh, bm.line))
     ELSE /\ pc' = "wait"
          /\ UNCHANGED sh
  /\ UNCHANGED <<sh0, nlines, exit_code>>
  /\ UNCHANGED avars

\* fgets returns NULL: batch_main returns final_status, main calls
\* sh_free() and returns it.
EndOfFile ==
  /\ pc = "read"
  /\ pc' = AfterExit(sh)
  /\ sh' = IF UseFreed(sh) THEN Crash(sh) ELSE sh
  /\ exit_code' = IF UseFreed(sh) THEN exit_code ELSE bm.final_status
  /\ UNCHANGED <<bm, kids, sh0, nlines>>
  /\ UNCHANGED avars

Init ==
  /\ sh \in {ShellStart(h) : h \in {NULL, TDir}}
  /\ sh0 = sh
  /\ bm = FrameStart
  /\ pc = "read"
  /\ kids = <<>>
  /\ nlines = 0
  /\ exit_code = -1
  /\ tbl = hm_create
  /\ input = <<>>
  /\ sa = SubstEntry(hm_create, <<NULL>>, 0)
  /\ cur = <<>>
  /\ ret = NotCalled

Next ==
  \/ \E l \in ScriptLines : ReadSingle(l)
  \/ KidExecSingle
  \/ WaitSingle
  \/ \E l \in ScriptLines : ReadPipeline(l)
  \/ Fork
  \/ CloseAll
  \/ \E k \in 1..Len(kids) : KidSetup(k)
  \/ \E k \in 1..Len(kids) : KidRun(k)
  \/ \E k \in 1..Len(kids) : \E status \in WaitStatuses : ProgramEnds(k, status)
  \/ Wait
  \/ EndOfFile

Spec == Init /\ [][Next]_vars

(***************************************************************************)
(* Interactive mode: interactive_main reads the lines from standard input. *)
(* Its loop starts by reaping every child (while (wait(NULL) > 0)), keeps  *)
(* no status, and runs the lines as batch_main does, except that after a   *)
(* pipeline it goes back to the top of the loop without waiting.  bm holds *)
(* its locals; pc is prompt, iwait1, ifork or iclose.                      *)
(***************************************************************************)
\* A loop top that does not wait for the children.
AllReaped_unchecked == TRUE

\* wait(NULL) has returned -1: no child is left to wait for.
AllReaped == \A k \in 1..Len(kids) : kids[k].st = "reaped"

\* Where interactive_main stands once the line is in the history.
AfterInput(s) == IF s.crashed THEN "crashed" ELSE "prompt"

\* while (wait(NULL) > 0) {}: one child that has ended is collected.
Reap(k) ==
  /\ pc = "prompt"
  /\ kids[k].st = "zombie"
  /\ kids' = [kids EXCEPT ![k].st = "reaped"]
  /\ UNCHANGED <<sh, bm, pc, sh0, nlines, exit_code>>
  /\ UNCHANGED avars

\* b is execute_builtin's outcome on the resolved single command r.
InputDispatched(l, r, b) ==
  IF b.sh.crashed
  THEN /\ sh' = b.sh
       /\ bm' = [Frame(l) EXCEPT !.argv = r.argv, !.argc = r.argc]
       /\ kids' = <<>>
       /\ pc' = "crashed"
       /\ UNCHANGED exit_code
  ELSE IF b.res = 2
  THEN /\ sh' = IF UseFreed(b.sh) THEN Crash(b.sh) ELSE b.sh
       /\ bm' = [Frame(l) EXCEPT !.argv = r.argv, !.argc = r.argc, !.res = 2]
       /\ kids' = <<>>
       /\ pc' = AfterExit(b.sh)
       /\ exit_code' = IF UseFreed(b.sh) THEN exit_code ELSE b.sh.rc
  ELSE IF b.res \in {0, 1}
  THEN /\ sh' = Remember(b.sh, l)
       /\ bm' = [Frame(l) EXCEPT !.argv = r.argv, !.argc = r.argc, !.res = b.res]
       /\ kids' = <<>>
       /\ pc' = AfterInput(Remember(b.sh, l))
       /\ UNCHANGED exit_code
  ELSE /\ sh' = b.sh
       /\ bm' = [Frame(l) EXCEPT !.argv = r.argv, !.argc = r.argc]
       /\ kids' = <<NewKid(b.sh)>>
       /\ pc' = "iwait1"
       /\ UNCHANGED exit_code

InputResolved(l, r) ==
  IF r.argc = 0
  THEN /\ sh' = Remember(r.sh, l)
       /\ bm' = [Frame(l) EXCEPT !.argv = r.argv, !.argc = r.argc]
       /\ kids' = <<>>
       /\ pc' = AfterInput(Remember(r.sh, l))
       /\ UNCHANGED exit_code
  ELSE InputDispatched(l, r, execute_builtin(r.sh, r.argv, r.argc))

\* The wait loop has found no child left; fgets delivers a line without '|'.
InputSingle(l) ==
  /\ pc = "prompt"
  /\ AllReaped
  /\ nlines < MaxLines
  /\ Len(strsep_all(l)) = 1
  /\ nlines' = nlines + 1
  /\ \E m \in HeapViews :
       /\ sh0' = AtLineStart(m)
       /\ InputResolved(l, Resolve(AtLineStart(m), strsep_all(l)[1]))
  /\ UNCHANGED avars

\* wait(NULL) for the single command, then the history append.
InputWaitSingle ==
  /\ pc = "iwait1"
  /\ kids[1].st = "zombie"
  /\ kids' = <<[kids[1] EXCEPT !.st = "reaped"]>>
  /\ sh' = Remember(sh, bm.line)
  /\ pc' = AfterInput(Remember(sh, bm.line))
  /\ UNCHANGED <<bm, sh0, nlines, exit_code>>
  /\ UNCHANGED avars

\* v is the outcome of the validation loop over the segments of l.
InputValidated(l, v) ==
  IF v.ok
  THEN /\ sh' = [v.sh EXCEPT !.fds = PipeEnds(Len(strsep_all(l)) - 1)]
       /\ bm' = [Frame(l) EXCEPT !.num_pipes = Len(strsep_all(l)) - 1]
       /\ pc' = "ifork"
  ELSE /\ sh' = Remember(v.sh, l)
       /\ bm' = [Frame(l) EXCEPT !.is_valid_pipeline = 0]
       /\ pc' = AfterInput(Remember(v.sh, l))

\* fgets delivers a line with '|'.
InputPipeline(l) ==
  /\ pc = "prompt"
  /\ AllReaped
  /\ nlines < MaxLines
  /\ Len(strsep_all(l)) > 1
  /\ nlines' = nlines + 1
  /\ kids' = <<>>
  /\ \E m \in HeapViews :
       /\ sh0' = AtLineStart(m)
       /\ InputValidated(l, ValidateFrom(AtLineStart(m), strsep_all(l), 1))
  /\ UNCHANGED exit_code
  /\ UNCHANGED avars

\* int pid = fork() in the parent.
InputFork ==
  /\ pc = "ifork"
  /\ kids' = Append(kids, NewKid(sh))
  /\ bm' = [bm EXCEPT !.i = IF bm.i + 1 = Len(bm.commands) THEN 0 ELSE bm.i + 1]
  /\ pc' = IF bm.i + 1 = Len(bm.commands) THEN "iclose" ELSE "ifork"
  /\ UNCHANGED <<sh, sh0, nlines, exit_code>>
  /\ UNCHANGED avars

\* The parent closes both ends of every pipe and appends the line to the
\* history; the children are left to the wait loop at the top.
InputCloseAll ==
  /\ pc = "iclose"
  /\ sh' = Remember([sh EXCEPT !.fds = @ \ PipeEnds(bm.num_pipes)], bm.line)
  /\ pc' = AfterInput(Remember(sh, bm.line))
  /\ UNCHANGED <<bm, kids, sh0, nlines, exit_code>>
  /\ UNCHANGED avars

\* fgets returns NULL: interactive_main returns, main calls sh_free() and
\* returns rc.
InputEnds ==
  /\ pc = "prompt"
  /\ AllReaped
  /\ pc' = AfterExit(sh)
  /\ sh' = IF UseFreed(sh) THEN Crash(sh) ELSE sh
  /\ exit_code' = IF UseFreed(sh) THEN exit_code ELSE sh.rc
  /\ UNCHANGED <<bm, kids, sh0, nlines>>
  /\ UNCHANGED avars

\* main: argc decides between interactive_main and batch_main.
InitModes ==
  /\ sh \in {ShellStart(h) : h \in {NULL, TDir}}
  /\ sh0 = sh
  /\ bm = FrameStart
  /\ pc \in {"read", "prompt"}
  /\ kids = <<>>
  /\ nlines = 0
  /\ exit_code = -1
  /\ tbl = hm_create
  /\ input = <<>>
  /\ sa = SubstEntry(hm_create, <<NULL>>, 0)
  /\ cur = <<>>
  /\ ret = NotCalled

NextModes ==
  \/ Next
  \/ \E k \in 1..Len(kids) : Reap(k)
  \/ \E l \in ScriptLines : InputSingle(l)
  \/ InputWaitSingle
  \/ \E l \in ScriptLines : InputPipeline(l)
  \/ InputFork
  \/ InputCloseAll
  \/ InputEnds

SpecModes == InitModes /\ [][NextModes]_vars

(***************************************************************************)
(* Pipelines of programs that read their input to its end: the program of  *)
(* the first segment ends on its own, the program of any later segment     *)
(* ends once read() on its standard input returns 0, which the kernel      *)
(* delivers when no process holds the write end of that pipe.  Processes   *)
(* are scheduled fairly.                                                   *)
(***************************************************************************)
MaxSegments == 3

LiveLines ==
  { ScriptLine(<<P, P>>),
    ScriptLine(<<P, P, P>>),
    ScriptLine(<<P, Words(<<W_cd, NDir>>)>>),
    ScriptLine(<<Words(<<W_which, P>>), P>>) }

\* Child k has the descriptor e open: in its table or as a standard stream.
HoldsOpen(k, e) ==
  /\ kids[k].st \in {"forked", "ready", "running"}
  /\ e \in kids[k].mem.fds \/ kids[k].stdin = e \/ kids[k].stdout = e

\* Some process has the write end of pipes[i] open.
HasWriter(i) ==
  \/ WriteEnd(i) \in sh.fds
  \/ \E j \in 1..Len(kids) : HoldsOpen(j, WriteEnd(i))

\* read() on the standard input of child k returns 0.
InputAtEnd(k) == kids[k].stdin # Tty /\ ~HasWriter(kids[k].stdin[1])

\* The program of child k ends: the first one when it is done, a later one
\* when its input is at its end.
ProgramStops(k, status) ==
  /\ k \in 1..Len(kids)
  /\ kids[k].st = "running"
  /\ k = 1 \/ InputAtEnd(k)
  /\ kids' = [kids EXCEPT ![k].st = "zombie", ![k].status = status]
  /\ UNCHANGED <<sh, bm, pc, sh0, nlines, exit_code>>
  /\ UNCHANGED avars

\* Child k sets itself up.
KidSetsUp(k) == k \in 1..Len(kids) /\ KidSetup(k)

\* Child k can resolve and run its segment: the guard of KidRun(k).
CanRun(k) == k \in 1..Len(kids) /\ kids[k].st = "ready"

KidRuns(k) == CanRun(k) /\ KidRun(k)

KidStops(k) == \E status \in WaitStatuses : ProgramStops(k, status)

KidReaped(k) == k \in 1..Len(kids) /\ Reap(k)

NextLive ==
  \/ \E l \in LiveLines : ReadPipeline(l)
  \/ Fork
  \/ CloseAll
  \/ Wait
  \/ EndOfFile
  \/ \E l \in LiveLines : InputPipeline(l)
  \/ InputFork
  \/ InputCloseAll
  \/ InputEnds
  \/ \E k \in 1..MaxSegments : KidSetsUp(k)
  \/ \E k \in 1..MaxSegments : KidRuns(k)
  \/ \E k \in 1..MaxSegments : KidStops(k)
  \/ \E k \in 1..MaxSegments : KidReaped(k)

\* Every process that can take a step eventually takes one.  For KidRuns(k)
\* the condition is weak fairness written out, ENABLED being CanRun(k).
FairScheduling ==
  /\ WF_vars(Fork)
  /\ WF_vars(CloseAll)
  /\ WF_vars(Wait)
  /\ WF_vars(InputFork)
  /\ WF_vars(InputCloseAll)
  /\ \A k \in 1..MaxSegments :
       /\ WF_vars(KidSetsUp(k))
       /\ []<>(~CanRun(k)) \/ []<><<KidRuns(k)>>_vars
       /\ WF_vars(KidStops(k))
       /\ WF_vars(KidReaped(k))

SpecLive == InitModes /\ [][NextLive]_vars /\ FairScheduling

(***************************************************************************)
(* A script of single commands: the builtins with good and bad arguments,  *)
(* parse errors, and external commands.                                    *)
(***************************************************************************)
Q == <<"q">>
A == <<"a">>
B == <<"b">>
X == <<"x">>
Eq == <<"=">>
Num(d) == <<Digits[d]>>
Line(ws) == ScriptLine(<<Words(ws)>>)

CommandLines ==
  { Line(<<P>>), Line(<<Q>>), Line(<<N>>), Line(<<A>>),
    Line(<<<<".", "/", "q">>>>),
    Line(<<W_cd>>), Line(<<W_cd, TDir>>), Line(<<W_cd, NDir>>),
    Line(<<W_cd, <<"t">>>>), Line(<<W_cd, TDir, X>>),
    Line(<<W_cd, TDir, <<"'", "x">>>>),
    Line(<<W_alias, A, Eq, <<"'", "p">>>>),
    Line(<<W_alias, A, Eq, P>>), Line(<<W_alias, A, B>>),
    Line(<<W_unalias, A>>), Line(<<W_unalias>>),
    Line(<<W_exit>>), Line(<<W_exit, Num(1)>>), Line(<<W_exit, Num(1), Num(2)>>),
    Line(<<W_history>>), Line(<<W_history, Num(1)>>), Line(<<W_history, Num(2)>>),
    Line(<<W_history, <<"0">>>>), Line(<<W_history, X>>),
    Line(<<W_history, <<"-", "1">>>>),
    Line(<<W_path>>), Line(<<W_path, TDir>>), Line(<<W_path, TDir, X>>),
    Line(<<W_path, TDir \o <<":">> \o BinDir>>),
    Line(<<W_which, P>>) }

NextLines ==
  \/ \E l \in CommandLines : ReadSingle(l)
  \/ KidExecSingle
  \/ WaitSingle
  \/ \E k \in 1..Len(kids) : \E status \in WaitStatuses : ProgramEnds(k, status)
  \/ EndOfFile

SpecLines == Init /\ [][NextLines]_vars

(***************************************************************************)
(* The alias builtins on their own: execute_builtin called once with an    *)
(* alias or unalias argument vector on a session holding a small table.    *)
(* Argument tokens are taken as the tokenizer can deliver them: plain      *)
(* words, the equals sign, the empty token and a token with a space (both  *)
(* from quoted text).                                                      *)
(***************************************************************************)
MaxCallArgs == 4

CallTokens == {A, B, Eq, <<>>, <<"a", " ", "b">>}
CallVectors ==
  {<<c>> \o v : c \in {W_alias, W_unalias},
                v \in UNION {[1..n -> CallTokens] : n \in 0..MaxCallArgs}}
CallTables == UNION {[D -> {<<>>, P}] : D \in SUBSET {A, B}}

\* The session the call runs in: the table tbl, everything else as started.
CallSession == [ShellStart(NULL) EXCEPT !.alias_hm = tbl]

InitCall ==
  /\ tbl \in CallTables
  /\ input \in CallVectors
  /\ ret = NotCalled
  /\ sa = SubstEntry(hm_create, <<NULL>>, 0)
  /\ cur = <<>>
  /\ SessionIdle

\* int res = execute_builtin(argv, argc);
Call ==
  /\ ~ret.done
  /\ ret' = Returned(execute_builtin(CallSession, Append(input, NULL), Len(input)))
  /\ UNCHANGED <<tbl, input, sa, cur>>
  /\ UNCHANGED svars

NextCall == Call

SpecCall == InitCall /\ [][NextCall]_vars

(***************************************************************************)
(* Name resolution on its own: which and get_command_path called once in   *)
(* a session with a given PATH, working directory and alias table.         *)
(***************************************************************************)
Colon == <<":">>
Dot == <<".">>
DotQ == <<".", "/", "q">>

PathValues ==
  { NULL, <<>>, BinDir, TDir, TDir \o Colon \o BinDir, BinDir \o Colon \o TDir,
    NDir \o Colon \o BinDir, Colon \o BinDir, Dot \o Colon \o BinDir }

ResolveNames ==
  { P, Q, N, A, <<>>, DotQ, BinDir \o <<"/">> \o P, TDir \o <<"/">> \o Q, NDir,
    W_cd }

ResolveTables ==
  { hm_create, hm_put(hm_create, A, P), hm_put(hm_create, P, <<>>),
    hm_put(hm_create, W_cd, P), hm_put(hm_create, DotQ, P) }

ResolveInputs == {<<>>, <<P, Q>>} \cup {<<n>> : n \in ResolveNames}

ResolveSessions ==
  { [ShellStart(NULL) EXCEPT !.alias_hm = t, !.PATH = v, !.cwd = d] :
      t \in ResolveTables, v \in PathValues, d \in {RootDir, TDir} }

InitResolve ==
  /\ sh \in ResolveSessions
  /\ sh0 = sh
  /\ input \in ResolveInputs
  /\ ret = NotCalled
  /\ cur = <<>>
  /\ tbl = hm_create
  /\ sa = SubstEntry(hm_create, <<NULL>>, 0)
  /\ bm = FrameStart
  /\ pc = "read"
  /\ kids = <<>>
  /\ nlines = 0
  /\ exit_code = -1

\* r is the value a call returned together with the process state it left.
CallReturns(name, r) ==
  /\ ret' = Returned(r)
  /\ sh' = r.sh
  /\ cur' = <<name>>
  /\ UNCHANGED <<tbl, input, sa, bm, pc, kids, sh0, nlines, exit_code>>

\* which_command(argv, argc) with argv = which followed by the input.
CallWhich ==
  /\ ~ret.done
  /\ CallReturns("which",
                 which_command(sh, <<W_which>> \o input \o <<NULL>>, Len(input) + 1))

\* get_command_path(argv[0])
CallResolve ==
  /\ ~ret.done
  /\ Len(input) = 1
  /\ CallReturns("get_command_path", get_command_path(sh, input[1]))

NextResolve == CallWhich \/ CallResolve

SpecResolve == InitResolve /\ [][NextResolve]_vars

(***************************************************************************)
(* Claims about alias resolution, checked under SpecSubst.                 *)
(***************************************************************************)
A1 == <<Letters[1]>>
A2 == <<Letters[2]>>
A3 == <<Letters[3]>>

\* The resolution left the loop through its condition (neither the cycle
\* stop nor the empty-alias return).
NormalEnd == sa.pc = "done" /\ sa.new_argc > 0 /\ ~SubstContinues(sa)

\* C6: alias resolution terminates; the loop body of substitute_alias runs
\* at most (number of alias names + 1) times, whatever the table holds
\* (self-reference and cycles of any length included).
C6_IterationBound == sa.n_iter <= Cardinality(DOMAIN tbl) + 1

\* A resolution that went round a cycle through every name of a table of
\* at least two aliases and used all of its iterations.
C6_Witness ==
  /\ sa.pc = "done"
  /\ Cardinality(DOMAIN tbl) >= 2
  /\ sa.n_iter = Cardinality(DOMAIN tbl) + 1

\* C7: the splice keeps every argument: after a chain of expansions the
\* vector is what "new tokens followed by the rest of the current vector"
\* builds step by step, so its count is the input count plus the sum of
\* (replacement tokens - 1).  With a = 'b x' and b = 'c', [a, 1] gives
\* [c, x, 1].
C7_SplicePreserves == NormalEnd => Result = cur

\* C8: an alias whose replacement starts with its own name is expanded
\* exactly once: [n, r1..rk] becomes the replacement's tokens followed by
\* r1..rk.
C8_SelfReferenceOnce ==
  (/\ sa.pc = "done"
   /\ input[1] \in DOMAIN tbl
   /\ Args(parseline_no_subst(tbl[input[1]])) # <<>>
   /\ Args(parseline_no_subst(tbl[input[1]]))[1] = input[1])
  => /\ sa.n_iter = 1
     /\ Result = Args(parseline_no_subst(tbl[input[1]])) \o Tail(input)

\* ls = 'ls -l' applied to a vector with trailing arguments, resolved.
C8_Witness ==
  /\ sa.pc = "done"
  /\ input[1] \in DOMAIN tbl
  /\ tbl[input[1]] = input[1] \o <<" ", "x">>
  /\ Len(input) > 1
  /\ sa.n_iter = 1

\* The resolution under study is that of [X] with X = "Y" and Y = "X".
TwoCycle ==
  /\ DOMAIN tbl = {A1, A2}
  /\ tbl[A1] = A2
  /\ tbl[A2] = A1
  /\ input = <<A1>>

\* C9 as stated: with X = "Y" and Y = "X", resolving [X] terminates and
\* yields [Y].
C9_CycleYieldsY == (TwoCycle /\ sa.pc = "done") => Result = <<A2>>

\* C9 as amended: with X = "Y" and Y = "X", resolving [X] terminates (the
\* loop body runs at most three times) and yields [X]: X is expanded to Y,
\* Y back to X, and the third pass finds X in the visited set.
C9_CycleYieldsX ==
  TwoCycle => /\ sa.n_iter <= 3
              /\ sa.pc = "done" => Result = <<A1>>

\* The resolution of [X] in the two-alias cycle has returned.
C9_Witness == TwoCycle /\ sa.pc = "done" /\ sa.n_iter = 3 /\ Result = <<A1>>

(***************************************************************************)
(* Claims about the batch session, checked under Spec.                     *)
(***************************************************************************)

\* r is a segment as tokenizing and alias resolution leave it: it has no
\* argument, or its first argument is neither a builtin name nor a command
\* that the path search finds.
InvalidResolved(r) ==
  \/ r.argc = 0
  \/ /\ At(r.argv, 0) \notin builtins
     /\ get_command_path(r.sh, At(r.argv, 0)).path = NULL

SegmentInvalid(s, segment) == InvalidResolved(Resolve(s, segment))

\* The line in hand is a pipeline, and one of its segments is invalid in
\* the session as the line found it.
IsPipeline == Len(bm.commands) >= 2
HasInvalidSegment ==
  \E k \in 1..Len(bm.commands) : SegmentInvalid(sh0, bm.commands[k])

\* The line in hand has been dealt with: the session is back at reading,
\* or has ended.
LineDone == nlines > 0 /\ pc \in {"read", "done"}

\* C1: pre-validation: for a line of two or more segments with at least
\* one invalid segment, no child process is spawned for any segment and no
\* pipe is created.
C1_NoSpawnWhenInvalid ==
  (IsPipeline /\ HasInvalidSegment) => kids = <<>> /\ bm.num_pipes = 0

\* The three-segment pipeline whose middle command does not exist has been
\* dealt with: reported, recorded in the history, nothing spawned.
C1_Witness ==
  /\ LineDone
  /\ bm.line = ScriptLine(<<P, N, P>>)
  /\ HasInvalidSegment
  /\ ~SegmentInvalid(sh0, bm.commands[1])
  /\ sh.warned
  /\ kids = <<>>

\* C2: after a multi-segment line with an invalid segment the recorded
\* status is non-zero, and so is the exit code if the script ends there,
\* whatever the previous line's result was.
C2_InvalidPipelineFails ==
  (IsPipeline /\ HasInvalidSegment /\ LineDone)
  => /\ bm.final_status # 0
     /\ pc = "done" => exit_code # 0

\* C3: when a valid N-segment pipeline is done, each of its N children has
\* been waited for, and if all of them exited normally the recorded status
\* is the exit status of the last one.
C3_LastSegmentStatus ==
  (IsPipeline /\ ~HasInvalidSegment /\ LineDone)
  => /\ Len(kids) = Len(bm.commands)
     /\ \A k \in 1..Len(kids) : kids[k].st = "reaped"
     /\ (\A k \in 1..Len(kids) : kids[k].status.exited)
        => bm.final_status = kids[Len(kids)].status.code

\* p | p is done; the first child exited with 3, the last with 0, and the
\* recorded status is 0.
C3_Witness ==
  /\ LineDone
  /\ bm.line = ScriptLine(<<P, P>>)
  /\ kids[1].st = "reaped"
  /\ kids[1].status = ExitedWith(3)
  /\ kids[2].status = ExitedWith(0)
  /\ bm.final_status = 0

\* C4: isolation: whatever builtins the segments of a pipeline run, the
\* session's alias table, PATH, working directory and history are as the
\* line found them, apart from the one history append when the line is
\* done; the session goes on reading (it ends only at the end of the
\* script, with the line recorded).
C4_Isolation ==
  IsPipeline
  => /\ sh.alias_hm = sh0.alias_hm
     /\ sh.PATH = sh0.PATH
     /\ sh.cwd = sh0.cwd
     /\ sh.HOME = sh0.HOME
     /\ sh.history_da = IF LineDone THEN da_put(sh0.history_da, bm.line)
                        ELSE sh0.history_da
     /\ pc = "done" => exit_code = bm.final_status

\* cd /t | alias a = p | path /t is done: each child changed its own
\* copy, and the session still has the old directory, table and PATH.
C4_Witness ==
  /\ LineDone
  /\ Len(kids) = 3
  /\ kids[1].res = 0 /\ kids[1].mem.cwd = TDir /\ sh.cwd # TDir
  /\ kids[2].res = 0 /\ kids[2].mem.alias_hm # sh.alias_hm
  /\ kids[3].res = 0 /\ kids[3].mem.PATH = TDir /\ sh.PATH # TDir

\* C5: a pipeline child that ran a builtin exits with 0 when the builtin
\* succeeded and with a non-zero status when it failed; a pipeline whose
\* last segment is a failing builtin records a failure.
C5_BuiltinExitStatus ==
  IsPipeline
  => /\ \A k \in 1..Len(kids) :
          kids[k].st \in {"zombie", "reaped"}
          => /\ kids[k].res = 0 => kids[k].status.code = 0
             /\ kids[k].res = 1 => kids[k].status.code # 0
     /\ (LineDone /\ kids # <<>> /\ kids[Len(kids)].res = 1)
        => bm.final_status # 0

\* The tokens of the single command in hand, and whether the first one is
\* an alias for nothing in the table the line found.
LineTokens == Args(parseline_no_subst(bm.commands[1]))
EmptyAliasFirst ==
  /\ nlines > 0
  /\ Len(bm.commands) = 1
  /\ LineTokens # <<>>
  /\ LineTokens[1] \in DOMAIN sh0.alias_hm
  /\ Args(parseline_no_subst(sh0.alias_hm[LineTokens[1]])) = <<>>

LineBody(text) ==
  IF Len(text) > 0 /\ text[Len(text)] = "\n"
  THEN SubSeq(text, 1, Len(text) - 1)
  ELSE text

\* The first position >= from that holds c (that holds no space), or the
\* position after the end.
NextChar(s, c, from) == FirstIn({i \in from..Len(s) : s[i] = c}, Len(s) + 1)
NextNonSpace(s, from) == FirstIn({i \in from..Len(s) : s[i] # " "}, Len(s) + 1)

\* The tokens as the rule states them, from the token start p on: a token
\* that begins with a quote is what stands between it and the next quote;
\* any other token is the maximal run of non-space characters.  bad: a
\* token opens with a quote that is never closed.
RECURSIVE RuleTokens(_, _)
RuleAdd(tok, rest) == [toks |-> <<tok>> \o rest.toks, bad |-> rest.bad]

RuleQuoted(s, p, q) ==
  IF q > Len(s) THEN [toks |-> <<>>, bad |-> TRUE]
  ELSE RuleAdd(SubSeq(s, p + 1, q - 1), RuleTokens(s, NextNonSpace(s, q + 1)))

RulePlain(s, p, e) == RuleAdd(SubSeq(s, p, e - 1), RuleTokens(s, NextNonSpace(s, e)))

RuleTokens(s, p) ==
  IF p > Len(s) THEN [toks |-> <<>>, bad |-> FALSE]
  ELSE IF s[p] = "'" THEN RuleQuoted(s, p, NextChar(s, "'", p + 1))
  ELSE RulePlain(s, p, NextChar(s, " ", p))

RuleOf(text) == RuleTokens(LineBody(text), NextNonSpace(LineBody(text), 1))

\* C11: for every line without an unterminated quote the tokenizer yields,
\* in order, the quoted tokens verbatim and the maximal runs of non-space
\* characters; leading and trailing spaces and one trailing newline give no
\* token (an empty or all-space line has count 0), and the vector holds the
\* sentinel at index count.
C11_TokenizerResult ==
  (ret.done /\ ~RuleOf(input).bad)
  => /\ Args(ret.val) = RuleOf(input).toks
     /\ ret.val.argc = Len(RuleOf(input).toks)
     /\ At(ret.val.argv, ret.val.argc) = NULL
     /\ ~ret.val.warned

\* ' ' a, newline at the end, tokenized: a quoted space and a plain word.
C11_Witness ==
  /\ ret.done
  /\ input = <<"'", " ", "'", " ", "a", "\n">>
  /\ Args(ret.val) = <<<<" ">>, <<"a">>>>

(***************************************************************************)
(* Claims about single-command lines, checked under SpecLines.             *)
(***************************************************************************)

\* The line in hand is a single command.
IsSingle == nlines > 0 /\ Len(bm.commands) = 1

\* The session's alias table, PATH and working directory are as the line
\* found them.
SameSession ==
  /\ sh.alias_hm = sh0.alias_hm
  /\ sh.PATH = sh0.PATH
  /\ sh.cwd = sh0.cwd

\* The history store was in place when the line was read (no earlier
\* out-of-range history request had released it).
StoreInPlace == ~sh0.history_da.freed

\* C12: a single-segment line in which a token opens with a quote that is
\* never closed resolves to count 0, however many tokens precede it; the
\* line runs no builtin and no process, the error is reported, the alias
\* table, PATH and working directory are unchanged, and the session goes
\* on to read the next line (or ends at the end of the script).
C12_ParseErrorNoOp ==
  (IsSingle /\ RuleOf(bm.commands[1]).bad)
  => /\ bm.argc = 0
     /\ bm.res = -1
     /\ kids = <<>>
     /\ sh.warned
     /\ SameSession
     /\ StoreInPlace => pc \in {"read", "done"}

\* cd /t 'x has been read in / : nothing ran, the directory is still / and
\* the session is reading again.
C12_Witness ==
  /\ IsSingle
  /\ bm.line = Line(<<W_cd, TDir, <<"'", "x">>>>)
  /\ bm.argc = 0
  /\ sh.cwd = RootDir
  /\ sh.warned
  /\ pc = "read"

\* The lines entered before the line in hand, in order (the history store
\* receives every processed line once, at its end).
Entered == sh0.history_da.data

\* The line in hand is history followed by the one argument w.
HistoryLine(w) == IsSingle /\ bm.line = Line(<<W_history, w>>)

\* C13: history k with 1 <= k <= n succeeds and prints the k-th entered
\* line exactly as entered; history k with k = 0, k > n, k negative or k
\* not an integer fails with the invalid-argument error and prints nothing.
C13_HistoryRetrieval ==
  StoreInPlace
  => /\ \A k \in 1..2 :
          HistoryLine(Num(k))
          => IF k <= Len(Entered)
             THEN bm.res = 0 /\ sh.out = <<Entered[k]>>
             ELSE bm.res = 1 /\ sh.out = <<>> /\ sh.warned
     /\ \A w \in {<<"0">>, X, <<"-", "1">>} :
          HistoryLine(w) => bm.res = 1 /\ sh.out = <<>> /\ sh.warned

(***************************************************************************)
(* Claims about the status a script returns, checked under Spec.           *)
(***************************************************************************)

\* The step completes a line that ran a builtin in the session process.
BuiltinLineRuns ==
  /\ nlines' = nlines + 1
  /\ Len(bm'.commands) = 1
  /\ bm'.res \in {0, 1}

\* The step collects the child of a single external command.
ExternalLineEnds == pc = "wait1" /\ pc' # "wait1"

\* The step collects the last child of a pipeline.
PipelineEnds == pc = "wait" /\ pc' # "wait"

\* The status a collected child leaves as the line's result.
ResultOf(status) == IF status.exited THEN status.code ELSE bm.final_status

\* C14: the recorded result starts as success; a builtin line sets it to
\* the builtin's 0 or 1, a single external command to its child's exit
\* status, a pipeline to the exit status of its last child, and no other
\* step changes it; the value returned at an exit line and at end-of-file
\* is the recorded result at that point.
C14_BatchExitCode ==
  /\ (nlines = 0 => bm.final_status = 0)
  /\ [][ /\ bm'.final_status =
              IF BuiltinLineRuns THEN bm'.res
              ELSE IF ExternalLineEnds THEN ResultOf(kids[1].status)
              ELSE IF PipelineEnds THEN ResultOf(kids[Len(kids)].status)
              ELSE bm.final_status
         /\ (pc' = "done" /\ pc # "done") => exit_code' = bm.final_status
         /\ exit_code' # exit_code => pc' = "done" /\ pc # "done" ]_vars

\* cd /n failed, then cd /t succeeded, and the script returned success.
C14_Witness ==
  /\ pc = "done"
  /\ nlines = 2
  /\ sh.history_da.data = <<Line(<<W_cd, NDir>>), Line(<<W_cd, TDir>>)>>
  /\ sh.cwd = TDir
  /\ exit_code = 0

\* C15: after a builtin on a single-segment line returns the failure
\* outcome, the session reads and processes the next line (or meets the
\* end of the script); a builtin failure never ends the session.
C15_BuiltinErrorsRecoverable ==
  (IsSingle /\ StoreInPlace /\ bm.res = 1) => pc \in {"read", "done"}

\* The line in hand is the single command made of the words ws, read while
\* the history store was in place.
LineIs(ws) == IsSingle /\ StoreInPlace /\ bm.line = Line(ws)

\* The line in hand ended the session with the recorded result.
Terminated == bm.res = 2 /\ pc = "done" /\ exit_code = bm.final_status

\* The line in hand failed with a message and the session went on.
FailedAndWentOn == bm.res = 1 /\ sh.warned /\ pc \in {"read", "done"}

\* C16 as stated: exit alone and exit with exactly one argument both end
\* the session; exit with more than one argument is a usage error after
\* which the session continues.
C16_ExitZeroOrOne ==
  /\ LineIs(<<W_exit>>) => Terminated
  /\ LineIs(<<W_exit, Num(1)>>) => Terminated
  /\ LineIs(<<W_exit, Num(1), Num(2)>>) => FailedAndWentOn

\* C16: exit alone ends the session; exit followed by one argument or more
\* is a usage error after which the session continues.
C16_ExitNoArguments ==
  /\ LineIs(<<W_exit>>) => Terminated
  /\ LineIs(<<W_exit, Num(1)>>) => FailedAndWentOn
  /\ LineIs(<<W_exit, Num(1), Num(2)>>) => FailedAndWentOn

\* exit 1 was refused and the session is reading the next line.
C16_Witness ==
  /\ LineIs(<<W_exit, Num(1)>>)
  /\ bm.res = 1
  /\ pc = "read"
  /\ exit_code = -1

\* The line in hand is cd followed by the one argument d.
CdLine(d) == IsSingle /\ bm.line = Line(<<W_cd, d>>)

\* The directory the argument d names for a process in cwd, NULL when there
\* is none: /t exists, and t names it from / only.
DirNamed(cwd, d) ==
  IF d = TDir THEN TDir
  ELSE IF d = <<"t">> /\ cwd = RootDir THEN TDir
  ELSE NULL

\* C17: cd on a single-segment line: without argument and with HOME unset
\* it fails and the working directory is unchanged; with an argument that
\* names no directory it fails and the working directory is unchanged;
\* with an existing directory it succeeds and the working directory is
\* that directory.  Every later line starts in the directory the previous
\* line left, and only a successful cd line changes it.
C17_ChangeDirectory ==
  /\ [](/\ (IsSingle /\ bm.line = Line(<<W_cd>>) /\ sh0.HOME = NULL)
              => bm.res = 1 /\ sh.cwd = sh0.cwd
        /\ \A d \in {TDir, NDir, <<"t">>} :
              CdLine(d)
              => IF DirNamed(sh0.cwd, d) = NULL
                 THEN bm.res = 1 /\ sh.cwd = sh0.cwd
                 ELSE bm.res = 0 /\ sh.cwd = DirNamed(sh0.cwd, d))
  /\ [][ /\ nlines' # nlines => sh0'.cwd = sh.cwd
         /\ sh'.cwd # sh.cwd
              => /\ nlines' # nlines
                 /\ At(bm'.argv, 0) = W_cd
                 /\ bm'.res = 0 ]_vars

\* After cd /t the next line ./q found its program in /t and the child
\* ran it there.
C17_Witness ==
  /\ nlines = 2
  /\ Entered = <<Line(<<W_cd, TDir>>)>>
  /\ bm.line = Line(<<<<".", "/", "q">>>>)
  /\ sh.cwd = TDir
  /\ Len(kids) = 1
  /\ kids[1].st = "running"
  /\ kids[1].mem.cwd = TDir

(***************************************************************************)
(* Claims about the alias builtins, checked under SpecCall.                *)
(***************************************************************************)

\* A name the alias builtin is to accept: nonempty, without whitespace.
GoodName(n) == n # <<>> /\ \A k \in 1..Len(n) : n[k] \notin {" ", "\t", "\n"}

\* The table t with n bound to v and every other binding as it was.
Rebound(t, n, v) == [x \in (DOMAIN t) \cup {n} |-> IF x = n THEN v ELSE t[x]]

\* The call was  alias n = v  (four tokens) or  alias n =  (three tokens).
IsDefinition ==
  /\ ret.done
  /\ Len(input) \in {3, 4}
  /\ input[1] = W_alias
  /\ input[3] = Eq

DefinedValue == IF Len(input) = 4 THEN input[4] ELSE <<>>

\* C18: for every nonempty name without whitespace (the equals sign set
\* aside as a name) and every value token
\* (the empty one and the omitted one included), alias name = value
\* succeeds and leaves the table mapping name to value, with every other
\* binding unchanged.
C18_AliasDefinition ==
  (IsDefinition /\ GoodName(input[2]) /\ input[2] # Eq)
  => /\ ret.val.res = 0
     /\ ret.val.sh.alias_hm = Rebound(tbl, input[2], DefinedValue)

\* The call was alias with arguments that are not a definition: more than
\* three of them, no equals sign as the second, or a name that is empty or
\* holds whitespace.
IsMalformedAlias ==
  /\ ret.done
  /\ input[1] = W_alias
  /\ Len(input) > 1
  /\ \/ Len(input) > 4
     \/ Len(input) < 3
     \/ input[3] # Eq
     \/ ~GoodName(input[2])

\* C19: a malformed alias call returns failure (reported as a usage error)
\* and leaves the alias table exactly as it was.
C19_MalformedAliasRejected ==
  IsMalformedAlias
  => /\ ret.val.res = 1
     /\ ret.val.sh.warned
     /\ ret.val.sh.alias_hm = tbl

\* alias 'a b' = a  on a table binding a: refused, table as before.
C19_Witness ==
  /\ ret.done
  /\ input = <<W_alias, <<"a", " ", "b">>, Eq, A>>
  /\ tbl = Rebound(hm_create, A, P)
  /\ ret.val.res = 1
  /\ ret.val.sh.alias_hm = tbl

\* The call was unalias.
IsUnalias == ret.done /\ input[1] = W_unalias

\* The vector  n x  after alias resolution against the table t.
ResolvedAgainst(t, n) ==
  SubSeq(substitute_alias(t, <<n, X, NULL>>, 2).argv, 1,
         substitute_alias(t, <<n, X, NULL>>, 2).argc)

\* The session after  alias n = v  has run in the session of the call.
AfterDefining(n, v) == execute_builtin(CallSession, <<W_alias, n, Eq, v, NULL>>, 4).sh

\* C20: unalias with exactly one argument succeeds; afterwards the name
\* is unbound (a vector starting with it resolves to itself) and every
\* other binding is as before, whether or not the name was bound; on a
\* table where the name was unbound, defining it and then unaliasing it
\* gives the table back.  With any other argument count unalias fails and
\* the table is unchanged.
C20_Unalias ==
  IsUnalias
  => IF Len(input) = 2
     THEN /\ ret.val.res = 0
          /\ DOMAIN ret.val.sh.alias_hm = (DOMAIN tbl) \ {input[2]}
          /\ \A n \in DOMAIN ret.val.sh.alias_hm : ret.val.sh.alias_hm[n] = tbl[n]
          /\ ResolvedAgainst(ret.val.sh.alias_hm, input[2]) = <<input[2], X>>
          /\ (GoodName(input[2]) /\ input[2] # Eq /\ input[2] \notin DOMAIN tbl)
               => \A v \in {<<>>, P} :
                    /\ AfterDefining(input[2], v).alias_hm = Rebound(tbl, input[2], v)
                    /\ execute_builtin(AfterDefining(input[2], v),
                                       Append(input, NULL), 2).sh.alias_hm = tbl
     ELSE /\ ret.val.res = 1
          /\ ret.val.sh.alias_hm = tbl

\* unalias a  on a table binding a and b: a is gone, b is as it was.
C20_Witness ==
  /\ ret.done
  /\ input = <<W_unalias, A>>
  /\ tbl = Rebound(Rebound(hm_create, A, P), B, <<>>)
  /\ ret.val.res = 0
  /\ ret.val.sh.alias_hm = Rebound(hm_create, B, <<>>)

(***************************************************************************)
(* Claims about name resolution, checked under SpecResolve.                *)
(***************************************************************************)

\* The directories a colon-separated PATH lists, left to right (empty
\* fields list nothing).
RECURSIVE PathDirs(_)
PathDirs(v) ==
  IF v = NULL \/ v = <<>> THEN <<>>
  ELSE IF v[1] = ":" THEN PathDirs(Tail(v))
  ELSE <<SubSeq(v, 1, NextChar(v, ":", 1) - 1)>>
         \o PathDirs(SubSeq(v, NextChar(v, ":", 1) + 1, Len(v)))

\* The file a path names for a process in cwd can be executed.
Executable(cwd, path) == AbsPath(cwd, path) \in (Execs \cup Dirs)

\* A name given as a path: it starts with . or /.
IsExplicit(name) == name # <<>> /\ name[1] \in {".", "/"}

\* The candidates <dir>/<name> of a bare name that can be executed, in the
\* order of PATH.
Candidates(cwd, v, name) ==
  SelectSeq([i \in 1..Len(PathDirs(v)) |-> PathDirs(v)[i] \o <<"/">> \o name],
            LAMBDA c : Executable(cwd, c))

SevenBuiltins ==
  {<<"e", "x", "i", "t">>, <<"a", "l", "i", "a", "s">>,
   <<"u", "n", "a", "l", "i", "a", "s">>, <<"w", "h", "i", "c", "h">>,
   <<"p", "a", "t", "h">>, <<"c", "d">>, <<"h", "i", "s", "t", "o", "r", "y">>}

\* What which is to print and return for name when the session is s: the
\* printed line (<<>> when none is claimed) and the result.
WhichExpected(s, name) ==
  IF name \in DOMAIN s.alias_hm
  THEN [res |-> 0, out |-> <<<<"WHICH_ALIAS">> \o name \o <<"|">> \o s.alias_hm[name]>>]
  ELSE IF name \in SevenBuiltins
  THEN [res |-> 0, out |-> <<<<"WHICH_BUILTIN">> \o name \o <<"|">>>>]
  ELSE IF IsExplicit(name)
  THEN IF Executable(s.cwd, name)
       THEN [res |-> 0, out |-> <<<<"WHICH_EXTERNAL">> \o name \o <<"|">> \o name>>]
       ELSE [res |-> 1, out |-> <<<<"WHICH_NOT_FOUND">> \o name \o <<"|">>>>]
  ELSE IF Candidates(s.cwd, s.PATH, name) # <<>>
  THEN [res |-> 0,
        out |-> <<<<"WHICH_EXTERNAL">> \o name \o <<"|">>
                    \o Candidates(s.cwd, s.PATH, name)[1]>>]
  ELSE IF s.PATH = NULL \/ s.PATH = <<>>
  THEN [res |-> 1, out |-> <<>>]
  ELSE [res |-> 1, out |-> <<<<"WHICH_NOT_FOUND">> \o name \o <<"|">>>>]

WhichCalled == ret.done /\ cur = <<"which">>

\* C21: which name reports an alias with its definition if name is in the
\* alias table, else a builtin if name is one of the seven builtin names,
\* else the explicit path if name starts with . or / and is executable,
\* else (for a bare name) the first PATH directory in which it is
\* executable; it returns success in exactly these cases and failure
\* otherwise, and with an argument count other than one.
C21_WhichPrecedence ==
  WhichCalled
  => IF Len(input) = 1
     THEN /\ ret.val.res = WhichExpected(sh0, input[1]).res
          /\ sh.out = WhichExpected(sh0, input[1]).out
     ELSE ret.val.res = 1 /\ sh.out = <<>> /\ sh.warned

\* which cd  where cd is both aliased to p and a builtin: the alias is
\* reported.
C21_Witness ==
  /\ WhichCalled
  /\ input = <<W_cd>>
  /\ sh0.alias_hm = hm_put(hm_create, W_cd, P)
  /\ ret.val.res = 0
  /\ sh.out = <<<<"WHICH_ALIAS">> \o W_cd \o <<"|">> \o P>>

\* What path resolution is to give for name when the session is s: the
\* path (NULL when there is none) and the error reported.
ResolveExpected(s, name) ==
  IF IsExplicit(name)
  THEN IF Executable(s.cwd, name)
       THEN [path |-> name, err |-> <<>>]
       ELSE [path |-> NULL, err |-> <<"CMD_NOT_FOUND">>]
  ELSE IF s.PATH = NULL \/ s.PATH = <<>>
  THEN [path |-> NULL, err |-> <<"EMPTY_PATH">>]
  ELSE IF Candidates(s.cwd, s.PATH, name) # <<>>
  THEN [path |-> Candidates(s.cwd, s.PATH, name)[1], err |-> <<>>]
  ELSE [path |-> NULL, err |-> <<"CMD_NOT_FOUND">>]

ResolveCalled == ret.done /\ cur = <<"get_command_path">>

\* C22: path resolution gives, for a name starting with . or /, the name
\* itself iff it is executable and CommandNotFound otherwise; for any
\* other name, EmptyPath when PATH is absent or empty, and otherwise
\* <dir>/<name> for the leftmost PATH directory in which it is executable,
\* or CommandNotFound when there is none; the working directory is tried
\* only where PATH lists it.
C22_PathResolution ==
  ResolveCalled
  => /\ ret.val.path = ResolveExpected(sh0, input[1]).path
     /\ sh.err = ResolveExpected(sh0, input[1]).err
     /\ sh.PATH = sh0.PATH

\* q resolved in /t where /t/q is executable, with PATH /bin: not found.
C22_Witness ==
  /\ ResolveCalled
  /\ input = <<Q>>
  /\ sh0.cwd = TDir
  /\ sh0.PATH = BinDir
  /\ ret.val.path = NULL
  /\ sh.err = <<"CMD_NOT_FOUND">>

(***************************************************************************)
(* Further claims about single-command scripts, checked under SpecLines.   *)
(***************************************************************************)

\* The line in hand is the single command made of the words ws.
SingleLine(ws) == IsSingle /\ bm.line = Line(ws)

\* C23: PATH is /bin at startup; path X on a single-segment line succeeds
\* and makes PATH exactly X; path alone succeeds, prints PATH and leaves it
\* unchanged; path with more than one argument fails and leaves PATH
\* unchanged; and PATH stays what the last accepted path X made it, for
\* every later line.
C23_PathBuiltin ==
  /\ [](/\ nlines = 0 => sh.PATH = BinDir
        /\ \A v \in {TDir, TDir \o Colon \o BinDir} :
             SingleLine(<<W_path, v>>) => bm.res = 0 /\ sh.PATH = v
        /\ SingleLine(<<W_path>>)
             => bm.res = 0 /\ sh.PATH = sh0.PATH /\ sh.out = <<sh0.PATH>>
        /\ SingleLine(<<W_path, TDir, X>>) => bm.res = 1 /\ sh.PATH = sh0.PATH)
  /\ [][ /\ nlines' # nlines => sh0'.PATH = sh.PATH
         /\ sh'.PATH # sh.PATH
              => /\ nlines' # nlines
                 /\ At(bm'.argv, 0) = W_path
                 /\ bm'.argc = 2
                 /\ bm'.res = 0 ]_vars

(***************************************************************************)
(* Claims about the processes and pipes of a line.                         *)
(***************************************************************************)

\* The line in hand is a valid pipeline: its pipes have been created.
PipelineRuns == bm.num_pipes > 0

\* The parent is in its fork loop; the parent is past its close loop.
Forking == pc \in {"fork", "ifork"}
PastClose == pc \notin {"fork", "ifork", "close", "iclose"}

\* Child k has not exited.
Alive(k) == kids[k].st \in {"forked", "ready", "running"}

\* Child k is past its dup2 calls and its close loop.
SetUp(k) == kids[k].st # "forked"

\* Child k holds the pipe end e open under some descriptor.
KidHolds(k, e) ==
  Alive(k) /\ (e \in kids[k].mem.fds \/ kids[k].stdin = e \/ kids[k].stdout = e)

\* Segment i (child i + 1) holds e as nothing but the stream named.
OnlyStdout(i, e) ==
  \A k \in 1..Len(kids) :
    KidHolds(k, e) => k = i + 1 /\ kids[k].stdout = e /\ e \notin kids[k].mem.fds
                                /\ kids[k].stdin # e
OnlyStdin(i, e) ==
  \A k \in 1..Len(kids) :
    KidHolds(k, e) => k = i + 1 /\ kids[k].stdin = e /\ e \notin kids[k].mem.fds
                                /\ kids[k].stdout # e

\* C25: a valid N-segment pipeline has N-1 pipes and its children are
\* spawned left to right, N in all; a child that is past its setup reads
\* from pipe i-1 (segment 0 from the shell's input) and writes to pipe i
\* (the last segment to the shell's output), which needs both
\* redirections to precede the closes; once every child is set up and the
\* parent has run its close loop, the write end of pipe i is open only as
\* the standard output of segment i, the read end only as the standard
\* input of segment i+1, and the waiting parent holds no pipe end.
C25_PipeWiring ==
  PipelineRuns
  => /\ bm.num_pipes = Len(bm.commands) - 1
     /\ Len(kids) = IF Forking THEN bm.i ELSE Len(bm.commands)
     /\ \A k \in 1..Len(kids) :
          SetUp(k)
          => /\ kids[k].stdin = IF k > 1 THEN ReadEnd(k - 2) ELSE Tty
             /\ kids[k].stdout = IF k < Len(bm.commands) THEN WriteEnd(k - 1) ELSE Tty
     /\ (PastClose /\ \A k \in 1..Len(kids) : SetUp(k))
          => /\ sh.fds = {}
             /\ \A i \in 0..(bm.num_pipes - 1) :
                  /\ OnlyStdout(i, WriteEnd(i))
                  /\ OnlyStdin(i + 1, ReadEnd(i))

\* Three segments, all set up and none finished, the interactive parent
\* in its wait loop: the middle one reads pipe 0 and writes pipe 1.
C25_Witness ==
  /\ pc = "prompt"
  /\ Len(kids) = 3
  /\ \A k \in 1..3 : kids[k].st = "ready"
  /\ kids[2].stdin = ReadEnd(0)
  /\ kids[2].stdout = WriteEnd(1)
  /\ sh.fds = {}

\* C24: whenever the session reads a new input line, in batch and in
\* interactive mode, every child spawned for an earlier line (single
\* command or pipeline segment) has terminated and has been reaped.
C24_NoOverlap ==
  [][ nlines' # nlines
        => \A k \in 1..Len(kids) : kids[k].st = "reaped" ]_vars

\* In interactive mode the pipeline p | p was run as the first line and a
\* second pipeline has been read after it.
C24_Witness ==
  /\ nlines = 2
  /\ sh0.history_da.data = <<ScriptLine(<<P, P>>)>>
  /\ pc = "ifork"
  /\ kids = <<>>

(***************************************************************************)
(* Claim about pipelines of reading programs, checked under SpecLive.      *)
(***************************************************************************)

\* The parent has started on a valid pipeline.
PipelineStarted == pc \in {"fork", "ifork"}

\* The session is back at reading a line and has collected every child.
BackAtInput == pc \in {"read", "prompt"} /\ AllReaped

\* C26: under fair scheduling, a valid pipeline whose first program ends
\* on its own and whose other programs end at the end of their input
\* always completes: every child exits, every wait returns and the session
\* gets back to reading a line.
C26_PipelineCompletes == PipelineStarted ~> BackAtInput

\* The three programs of p | p | p have ended and been collected, and the
\* batch session is back at reading.
C26_Witness ==
  /\ pc = "read"
  /\ bm.line = ScriptLine(<<P, P, P>>)
  /\ Len(kids) = 3
  /\ \A k \in 1..3 : kids[k].st = "reaped" /\ kids[k].status.exited

(***************************************************************************)
(* Claims about builtins and unknown commands on single-command lines,     *)
(* checked under SpecLines.                                                *)
(***************************************************************************)

\* The line last completed was the single command ws and it succeeded.
PrevRan(ws) == IsSingle /\ bm.line = Line(ws) /\ bm.res = 0

\* The step reads the single command ws.
Reads(ws) == nlines' = nlines + 1 /\ bm'.line = Line(ws)

\* C27: a builtin on a single-segment line runs in the session process: no
\* child exists for it.  Every line starts from the alias table, PATH and
\* working directory the previous line left; so  a  read right after
\* alias a = p  is expanded to p,  q  read right after  path /t  is
\* resolved by its child against /t (the child of a line  q  finds its
\* program exactly when the PATH the line started with lists one), and  ./q  read right after  cd /t
\* is run by its child in /t.
C27_BuiltinInProcess ==
  /\ []((IsSingle /\ bm.argc > 0 /\ At(bm.argv, 0) \in SevenBuiltins)
          => kids = <<>>)
  /\ []((IsSingle /\ bm.line = Line(<<Q>>) /\ Len(kids) = 1
           /\ kids[1].st # "forked")
          => (kids[1].mem.err = <<>>
                <=> Candidates(sh0.cwd, sh0.PATH, Q) # <<>>))
  /\ [][ /\ nlines' # nlines
              => /\ sh0'.alias_hm = sh.alias_hm
                 /\ sh0'.PATH = sh.PATH
                 /\ sh0'.cwd = sh.cwd
         /\ (PrevRan(<<W_alias, A, Eq, P>>) /\ Reads(<<A>>))
              => /\ bm'.argc = 1
                 /\ At(bm'.argv, 0) = P
                 /\ kids' = <<NewKid(sh')>>
         /\ (PrevRan(<<W_path, TDir>>) /\ Reads(<<Q>>))
              => /\ Len(kids') = 1
                 /\ kids'[1].mem.PATH = TDir
                 /\ Candidates(sh0'.cwd, sh0'.PATH, Q) = <<TDir \o <<"/">> \o Q>>
         /\ (PrevRan(<<W_cd, TDir>>) /\ Reads(<<<<".", "/", "q">>>>))
              => /\ Len(kids') = 1
                 /\ kids'[1].mem.cwd = TDir ]_vars

\* After  alias a = p  the next line  a  was expanded to p and its child
\* runs /bin/p; the alias line itself left no child.
C27_Witness ==
  /\ nlines = 2
  /\ Entered = <<Line(<<W_alias, A, Eq, P>>)>>
  /\ bm.line = Line(<<A>>)
  /\ At(bm.argv, 0) = P
  /\ sh.alias_hm = hm_put(hm_create, A, P)
  /\ Len(kids) = 1
  /\ kids[1].st = "running"

\* The line in hand is a single command whose first argument, after alias
\* resolution, is no builtin and resolves to no executable.
NotFoundLine ==
  /\ IsSingle
  /\ StoreInPlace
  /\ bm.argc > 0
  /\ At(bm.argv, 0) \notin SevenBuiltins
  /\ ResolveExpected(sh0, At(bm.argv, 0)).path = NULL

\* C28: on such a line the forked child executes no program and exits
\* with failure, the alias table, PATH and working directory of the
\* session stay as they were, the line's result is failure once the child
\* is collected, and the session goes on to read (a script that ends there
\* returns failure).
C28_CommandNotFound ==
  NotFoundLine
  => /\ Len(kids) = 1
     /\ kids[1].st # "running"
     /\ kids[1].st \in {"zombie", "reaped"}
          => kids[1].status = ExitedWith(EXIT_FAILURE)
     /\ SameSession
     /\ pc \in {"wait1", "read", "done"}
     /\ pc \in {"read", "done"}
          => /\ kids[1].st = "reaped"
             /\ bm.final_status = EXIT_FAILURE
             /\ sh.history_da.data = Append(Entered, bm.line)
     /\ pc = "done" => exit_code = EXIT_FAILURE

\* After a successful  cd /t  the line  n  names nothing: its child has
\* exited with failure, the result is failure and the session reads on.
C28_Witness ==
  /\ nlines = 2
  /\ Entered = <<Line(<<W_cd, TDir>>)>>
  /\ bm.line = Line(<<N>>)
  /\ NotFoundLine
  /\ kids[1].st = "reaped"
  /\ kids[1].mem.err = <<"CMD_NOT_FOUND">>
  /\ bm.final_status = EXIT_FAILURE
  /\ sh.cwd = TDir
  /\ pc = "read"

(***************************************************************************)
(* Claims about the history store, checked under SpecLines.                *)
(***************************************************************************)

\* The line in hand has been processed and did not end the shell.
LineProcessed == nlines > 0 /\ pc \in {"read", "done"} /\ bm.res # 2

\* C29: every processed line that does not end the shell appends exactly
\* one entry, the raw line, once it has been executed; after n lines the
\* store holds the n lines in arrival order, and no operation removes,
\* reorders or rewrites an entry.
C29_HistoryAppendOnly ==
  /\ LineProcessed
       => /\ ~sh.history_da.freed
          /\ sh.history_da.data = Append(Entered, bm.line)
          /\ Len(sh.history_da.data) = nlines
  /\ (nlines > 0 /\ ~LineProcessed)
       => /\ ~sh.history_da.freed
          /\ sh.history_da.data = Entered

\* The line in hand is history k for a number k that is 0 or greater than
\* the number of entries.
OutOfRange ==
  \/ HistoryLine(<<"0">>)
  \/ \E k \in 1..2 : HistoryLine(Num(k)) /\ k > Len(Entered)

\* C30: after an out-of-range history request has reported the
\* invalid-argument failure the store still exists with the same entries
\* in the same order, and the line itself is appended to it.
C30_OutOfRangeNoEffect ==
  (OutOfRange /\ StoreInPlace)
  => /\ bm.res = 1
     /\ sh.warned
     /\ ~sh.history_da.freed
     /\ pc \in {"read", "done"}
     /\ sh.history_da.data = Append(Entered, bm.line)

\* C31: every entry refers to storage that stays valid for the rest of the
\* session, so history never reads a released line: the listing printed by
\* history  is the lines entered so far, each as it was entered.
C31_EntriesStayValid ==
  (IsSingle /\ StoreInPlace /\ bm.line = Line(<<W_history>>) /\ bm.res = 0)
  => sh.out = Entered

(***************************************************************************)
(* Claim about an empty alias met late, checked under SpecSubst.           *)
(***************************************************************************)

\* The resolution returned from the empty-alias branch after at least one
\* earlier expansion.
EmptyAfterExpansion == sa.pc = "done" /\ sa.new_argc = 0 /\ sa.n_iter >= 2

\* C32: when an alias for nothing becomes the first argument only after
\* earlier expansions, the result is the current (already spliced) vector
\* without its first argument: count 0 only if that vector had exactly one
\* argument, every other argument kept in order otherwise.  With
\* a = 'b x' and b = '', [a] gives [x].
C32_EmptyAfterExpansion == EmptyAfterExpansion => Result = cur

(***************************************************************************)
(* Claim about what changes PATH, checked under SpecLines.                 *)
(***************************************************************************)

\* C33: the value of PATH in the session process changes only through the
\* path builtin with one argument; which and the lookup of commands leave
\* it exactly as it was.
C33_PathOnlyByPath ==
  [][ sh'.PATH # sh.PATH
        => /\ nlines' = nlines + 1
           /\ At(bm'.argv, 0) = W_path
           /\ bm'.argc = 2 ]_vars

(***************************************************************************)
(* Claim about validation and execution of a pipeline, checked under Spec. *)
(***************************************************************************)

\* What the parent's validation pass made of segment k of the line in hand
\* and what child k, not yet past its own resolution, will make of it.
Validated(k) == Resolve(sh0, bm.commands[k])
ReResolved(k) == Resolve(kids[k].mem, bm.commands[k])

\* The classification of the resolved segment r by a process in state s:
\* builtin, or the path of the external command (NULL when there is none).
ClassifiedByParent(s, r) ==
  IF is_builtin_command(At(r.argv, 0)) = 0 THEN <<"builtin">>
  ELSE get_command_path(s, At(r.argv, 0)).path

ClassifiedByChild(s, r) ==
  IF execute_builtin(s, r.argv, r.argc).res # -1 THEN <<"builtin">>
  ELSE get_command_path(s, At(r.argv, 0)).path

\* Child k has left through the empty-pipe-segment path, or through the
\* command-not-found path.
LeftAsEmpty(k) == kids[k].st \in {"zombie", "reaped"} /\ kids[k].res = -2
LeftAsNotFound(k) ==
  /\ kids[k].st \in {"zombie", "reaped"}
  /\ kids[k].res = -1
  /\ kids[k].mem.err # <<>>

\* C34: in a pipeline that passed validation every child, resolving its
\* own segment again, gets the argument vector and the classification
\* (builtin, or the path of the external command) the validation pass got,
\* and no child leaves through the empty-pipe-segment or the
\* command-not-found path.
C34_ValidationAgrees ==
  PipelineRuns
  => \A k \in 1..Len(kids) :
       /\ kids[k].st \in {"forked", "ready"}
            => /\ ReResolved(k).argc = Validated(k).argc
               /\ ReResolved(k).argv = Validated(k).argv
               /\ ReResolved(k).argc > 0
               /\ ClassifiedByChild(kids[k].mem, ReResolved(k))
                    = ClassifiedByParent(sh0, Validated(k))
               /\ ClassifiedByChild(kids[k].mem, ReResolved(k)) # NULL
       /\ ~LeftAsEmpty(k)
       /\ ~LeftAsNotFound(k)

\* After  alias e = p  the line  p | e  passed validation; the second
\* child resolved e to p again and runs /bin/p.
C34_Witness ==
  /\ PipelineRuns
  /\ sh0.alias_hm = hm_put(hm_create, E, P)
  /\ bm.line = ScriptLine(<<P, E>>)
  /\ Len(kids) = 2
  /\ kids[1].st = "running"
  /\ kids[2].st = "running"
  /\ At(Validated(2).argv, 0) = P

(***************************************************************************)
(* Claim about the splitting of a line into segments, checked under Spec.  *)
(***************************************************************************)

\* The number of pipe characters in the text s.
Pipes(s) == Cardinality({i \in 1..Len(s) : s[i] = "|"})

\* p 'e|x'  as it is read from the script.
QuotedPipe == ScriptLine(<<Words(<<P, <<"'", "e", "|", "x", "'">>>>)>>)

\* C35: a line is split at every pipe character of the raw text before
\* any tokenization, quoted or not: the segments are the pieces between
\* the pipe characters.  The line  p 'e|x'  is therefore a two-segment
\* pipeline whose first segment has an unterminated quote and resolves to
\* zero arguments; it is rejected as an invalid pipeline, nothing is
\* spawned and no pipe is created.
C35_SplitIgnoresQuotes ==
  nlines > 0
  => /\ Len(bm.commands) = Pipes(bm.line) + 1
     /\ Glue(bm.commands, <<"|">>) = bm.line
     /\ \A k \in 1..Len(bm.commands) : Pipes(bm.commands[k]) = 0
     /\ bm.line = QuotedPipe
          => /\ bm.commands = <<P \o <<" ", "'", "e">>, <<"x", "'", "\n">>>>
             /\ parseline_no_subst(bm.commands[1]).warned
             /\ Resolve(sh0, bm.commands[1]).argc = 0
             /\ bm.is_valid_pipeline = 0
             /\ bm.num_pipes = 0
             /\ kids = <<>>
             /\ sh.warned

\* The line  p 'e|x'  has been dealt with as an invalid pipeline and is in
\* the history.
C35_Witness ==
  /\ bm.line = QuotedPipe
  /\ Len(bm.commands) = 2
  /\ bm.is_valid_pipeline = 0
  /\ kids = <<>>
  /\ pc = "read"
  /\ sh.history_da.data = Append(Entered, QuotedPipe)

====
